---- MODULE Spec2Model ----
(***************************************************************************)
(* Model of the row classification and aggregation pipeline of             *)
(* analisipolitiche: DataLoader.load (src/src/data_loader.py), the         *)
(* aggregations of AnalisiPolitiche (src/src/analysis.py), the loader and  *)
(* the revenue metric of the dashboard (src/app.py) and ConfigManager      *)
(* (src/src/config.py).                                                    *)
(*                                                                         *)
(* Representation.                                                         *)
(*  - A text (a cell of the sheet, a code, a column label) is a sequence   *)
(*    of one-character strings.  NaN / NaT / None is the empty sequence:   *)
(*    read_excel turns an empty cell (and an empty string) into NaN, so a  *)
(*    cell never holds the empty text.                                     *)
(*  - A row is a function from column names to values; a DataFrame is the  *)
(*    sequence of its rows, in order.  The column "Attività" is written    *)
(*    "Attivita".                                                          *)
(*  - The tariff dict is a sequence of <<code, rate>> pairs in insertion   *)
(*    order, with distinct codes.  Rates are amounts in euro cents, so     *)
(*    revenue arithmetic is exact (binary rounding of floats is not        *)
(*    modelled).                                                           *)
(*  - A parsed date is <<year, month, day>>, a period is <<year, month>>.  *)
(***************************************************************************)
EXTENDS Integers, Sequences, FiniteSets, TLC

VARIABLES
    raw,             \* df_raw: the rows read from the sheet
    ties,            \* how this build's unstable sort orders equal keys
    colonne,         \* the columns of the sheet
    tariffe,         \* self.tariffe
    escludi_eventi,  \* self.escludi_eventi
    pc,              \* position inside load(), "done" once it has returned
    k,               \* index of the for-loop over escludi_eventi
    df,              \* the working frame, the valid rows once load returns
    righe_scartate,  \* list of the discarded chunks
    df_scartate,     \* the concatenated discarded rows
    eccezione,       \* the exception load raised, "" if none
    risultato,       \* the last operation called and what it returned
    DEFAULT_CONFIG,  \* ConfigManager.DEFAULT_CONFIG: its dicts "tariffe" and "filtri"
    istanze,         \* the _config of every ConfigManager constructed so far
    config_json      \* the file at config_path

\* the state of the configuration manager
configState == <<DEFAULT_CONFIG, istanze, config_json>>

vars == <<configState, raw, ties, colonne, tariffe, escludi_eventi, pc, k, df, righe_scartate,
          df_scartate, eccezione, risultato>>

-----------------------------------------------------------------------------
(* Bounds *)

MaxRows == 2
MaxLen == 4
MaxUtenti == 3

-----------------------------------------------------------------------------
(* Texts *)

NaN == <<>>

\* the characters used, in code-point order
Ascii == <<" ", "-", "/", "0", "1", "2", "3", "4", "5", "6", "7", "8", "9",
           "A", "B", "C", "N", "P", "T", "X", "Y", "Z", "_", "a", "b", "c">>

Ord(c) == CHOOSE n \in 1..Len(Ascii) : Ascii[n] = c

IsUpper(c) == c \in {"A", "B", "C", "N", "P", "T", "X", "Y", "Z"}
IsDigit(c) == c \in {"0", "1", "2", "3", "4", "5", "6", "7", "8", "9"}

\* Python's str comparison: lexicographic by code point
RECURSIVE StrLess(_, _)
StrLess(a, b) ==
    IF a = <<>> THEN b # <<>>
    ELSE IF b = <<>> THEN FALSE
    ELSE IF a[1] = b[1] THEN StrLess(Tail(a), Tail(b))
    ELSE Ord(a[1]) < Ord(b[1])

\* sorted(S) for a set of texts
RECURSIVE Sorted(_)
Sorted(S) ==
    IF S = {} THEN <<>>
    ELSE LET m == CHOOSE x \in S : \A y \in S \ {x} : StrLess(x, y)
         IN <<m>> \o Sorted(S \ {m})

Range(s) == {s[n] : n \in DOMAIN s}

RECURSIVE SumSeq(_)
SumSeq(s) == IF s = <<>> THEN 0 ELSE Head(s) + SumSeq(Tail(s))

RECURSIVE Flatten(_)
Flatten(ss) == IF ss = <<>> THEN <<>> ELSE Head(ss) \o Flatten(Tail(ss))

-----------------------------------------------------------------------------
(* The tariff dict *)

Keys(t) == [n \in DOMAIN t |-> t[n][1]]
Tariffa(t, c) == LET n == CHOOSE j \in DOMAIN t : t[j][1] = c IN t[n][2]

\* DataLoader.__init__: self.codici_validi = list(tariffe.keys())
codici_validi == Keys(tariffe)

-----------------------------------------------------------------------------
(* Code extraction: df['Attività'].str.extract(r'^([A-Z]\d+)') *)

\* the end of the run of digits of t that starts at position p (\d+ is greedy)
RECURSIVE DigitRun(_, _)
DigitRun(t, p) ==
    IF p + 1 <= Len(t) /\ IsDigit(t[p + 1]) THEN DigitRun(t, p + 1) ELSE p

ExtractTwoDigits(t) ==
    IF Len(t) >= 3 /\ IsUpper(t[1]) /\ IsDigit(t[2]) /\ IsDigit(t[3])
    THEN SubSeq(t, 1, 3)
    ELSE NaN

ExtractCodice(t) ==
    IF Len(t) >= 2 /\ IsUpper(t[1]) /\ IsDigit(t[2])
    THEN SubSeq(t, 1, DigitRun(t, 2))
    ELSE NaN

-----------------------------------------------------------------------------
(* Date parsing: pd.to_datetime(..., format='%d/%m/%Y', errors='coerce') *)

Val(c) == Ord(c) - Ord("0")

RECURSIVE Num(_)
Num(s) == IF s = <<>> THEN 0 ELSE 10 * Num(SubSeq(s, 1, Len(s) - 1)) + Val(s[Len(s)])

AllDigits(s) == \A n \in DOMAIN s : IsDigit(s[n])

IsLeap(y) == (y % 4 = 0 /\ y % 100 # 0) \/ y % 400 = 0

DaysIn(m, y) ==
    IF m = 2 THEN (IF IsLeap(y) THEN 29 ELSE 28)
    ELSE IF m \in {4, 6, 9, 11} THEN 30 ELSE 31

\* the ways to cut t as <1-2 digits>/<1-2 digits>/<4 digits>
DateCuts(t) ==
    {ab \in (1..2) \X (1..2) :
        /\ Len(t) = ab[1] + ab[2] + 6
        /\ AllDigits(SubSeq(t, 1, ab[1]))
        /\ t[ab[1] + 1] = "/"
        /\ AllDigits(SubSeq(t, ab[1] + 2, ab[1] + ab[2] + 1))
        /\ t[ab[1] + ab[2] + 2] = "/"
        /\ AllDigits(SubSeq(t, ab[1] + ab[2] + 3, Len(t)))}

DateFields(t, ab) ==
    [g |-> Num(SubSeq(t, 1, ab[1])),
     m |-> Num(SubSeq(t, ab[1] + 2, ab[1] + ab[2] + 1)),
     a |-> Num(SubSeq(t, ab[1] + ab[2] + 3, Len(t)))]

ToDatetime(t) ==
    IF DateCuts(t) = {} THEN NaN
    ELSE LET f == DateFields(t, CHOOSE ab \in DateCuts(t) : TRUE)
         IN IF f.m \in 1..12 /\ f.a >= 1 /\ f.g >= 1 /\ f.g <= DaysIn(f.m, f.a)
            THEN <<f.a, f.m, f.g>>
            ELSE NaN

\* .dt.to_period('M')
ToPeriod(d) == IF d = NaN THEN NaN ELSE <<d[1], d[2]>>

-----------------------------------------------------------------------------
(* Frames *)

\* df[c] = v for one row
WithCol(r, c, v) == (c :> v) @@ r

\* pd.concat(chunks, ignore_index=True): the rows of the chunks in order, over
\* the union of their columns, a column a chunk lacks being filled with NaN
Concat(chunks) ==
    LET rows == Flatten(chunks)
        cols == UNION {DOMAIN rows[n] : n \in DOMAIN rows}
    IN [n \in DOMAIN rows |->
           [c \in cols |-> IF c \in DOMAIN rows[n] THEN rows[n][c] ELSE NaN]]

-----------------------------------------------------------------------------
(* DataLoader.load, step by step *)

\* the dtype of df_raw['Attività'] is object: the sheet has no data row, or some
\* cell of the column holds text (a column of empty cells is read as float64)
AttivitaIsObject ==
    Len(raw) = 0 \/ \E n \in DOMAIN raw : raw[n]["Attivita"] # NaN

Raise(e) ==
    /\ pc' = "raised"
    /\ eccezione' = e
    /\ UNCHANGED <<configState, raw, ties, colonne, tariffe, escludi_eventi, k, df, righe_scartate,
                   df_scartate, risultato>>

\* a numbering by the 0-based row label alone
IndiceOriginaleZeroBased(n) == n - 1

\* df = df_raw.copy(); df['_indice_originale'] = df.index + 2
IndiceOriginale(n) == (n - 1) + 2

ReadExcel ==
    /\ pc = "read"
    /\ df' = [n \in DOMAIN raw |->
                 WithCol(raw[n], "_indice_originale", IndiceOriginale(n))]
    /\ righe_scartate' = <<>>
    /\ k' = 1
    /\ pc' = "eventi"
    /\ UNCHANGED <<configState, raw, ties, colonne, tariffe, escludi_eventi, df_scartate, eccezione,
                   risultato>>

MotivoEvento(evento) == <<"Evento escluso: ", evento>>

\* scartate = df[mask].copy(); scartate['_motivo_esclusione'] = ...
ScartateEvento(d, evento) ==
    LET mask(r) == r["Evento"] = evento
        scartate == SelectSeq(d, mask)
    IN [n \in DOMAIN scartate |->
           WithCol(scartate[n], "_motivo_esclusione", MotivoEvento(evento))]

\* a loop body that forgets df = df[~mask]
SopravvissuteEventoKeepsAll(d, evento) == d

\* df = df[~mask]
SopravvissuteEvento(d, evento) ==
    LET keep(r) == ~(r["Evento"] = evento) IN SelectSeq(d, keep)

\* one iteration of: for evento in self.escludi_eventi
EscludiEvento ==
    /\ pc = "eventi"
    /\ k <= Len(escludi_eventi)
    /\ IF "Evento" \notin colonne
       THEN Raise("KeyError: Evento")
       ELSE LET evento == escludi_eventi[k]
                scartate == ScartateEvento(df, evento)
            IN /\ righe_scartate' = IF Len(scartate) > 0
                                    THEN Append(righe_scartate, scartate)
                                    ELSE righe_scartate
               /\ df' = SopravvissuteEvento(df, evento)
               /\ k' = k + 1
               /\ UNCHANGED <<configState, raw, ties, colonne, tariffe, escludi_eventi, pc,
                              df_scartate, eccezione, risultato>>

\* df = df.copy(); df['Codice'] = df['Attività'].str.extract(...)
EstraiCodice ==
    /\ pc = "eventi"
    /\ k > Len(escludi_eventi)
    /\ IF "Attivita" \notin colonne
       THEN Raise("KeyError: Attivita")
       ELSE IF ~AttivitaIsObject
       THEN Raise("AttributeError: .str")
       ELSE /\ df' = [n \in DOMAIN df |->
                        WithCol(df[n], "Codice", ExtractCodice(df[n]["Attivita"]))]
            /\ pc' = "codici"
            /\ UNCHANGED <<configState, raw, ties, colonne, tariffe, escludi_eventi, k,
                           righe_scartate, df_scartate, eccezione, risultato>>

\* ~df['Codice'].isin(self.codici_validi), with a check that only tests notna
CodiceInvalidoOnlyNaN(codice, validi) == codice = NaN

CodiceInvalido(codice, validi) == codice \notin Range(validi)

\* a reason that does not tell the missing code apart
MotivoCodiceNoNaNCase(x) == <<"Codice non in tariffe: ", x>>

\* lambda x: f"Codice non in tariffe: {x}" if pd.notna(x) else "Codice non riconosciuto"
MotivoCodice(x) ==
    IF x # NaN THEN <<"Codice non in tariffe: ", x>> ELSE <<"Codice non riconosciuto">>

\* a stage that drops its rows without recording them
ScartateCodiciDropped(d, validi) == <<>>

ScartateCodici(d, validi) ==
    LET mask(r) == CodiceInvalido(r["Codice"], validi)
        scartate == SelectSeq(d, mask)
    IN [n \in DOMAIN scartate |->
           WithCol(scartate[n], "_motivo_esclusione", MotivoCodice(scartate[n]["Codice"]))]

EscludiCodici ==
    /\ pc = "codici"
    /\ LET scartate_codici == ScartateCodici(df, codici_validi)
           keep(r) == ~CodiceInvalido(r["Codice"], codici_validi)
       IN /\ righe_scartate' = IF Len(scartate_codici) > 0
                               THEN Append(righe_scartate, scartate_codici)
                               ELSE righe_scartate
          /\ df' = SelectSeq(df, keep)
    /\ pc' = "date"
    /\ UNCHANGED <<configState, raw, ties, colonne, tariffe, escludi_eventi, k, df_scartate,
                   eccezione, risultato>>

C06 == <<"C", "0", "6">>

\* a selection that takes the completion date for every code
DataSceltaAlwaysFine(r) == r["Data Fine"]

\* lambda row: row['Data Proposta'] if row['Codice'] == 'C06' else row['Data Fine']
DataScelta(r) == IF r["Codice"] = C06 THEN r["Data Proposta"] ELSE r["Data Fine"]

\* Tipo, Data Riferimento, Anno-Mese
CalcolaDate ==
    /\ pc = "date"
    /\ df' = [n \in DOMAIN df |->
                 LET rif == ToDatetime(DataScelta(df[n]))
                 IN WithCol(WithCol(WithCol(df[n],
                        "Tipo", SubSeq(df[n]["Codice"], 1, 1)),
                        "Data Riferimento", rif),
                        "Anno-Mese", ToPeriod(rif))]
    /\ pc' = "concat"
    /\ UNCHANGED <<configState, raw, ties, colonne, tariffe, escludi_eventi, k, righe_scartate,
                   df_scartate, eccezione, risultato>>

\* df_scartate = pd.concat(righe_scartate, ignore_index=True), or
\* pd.DataFrame() if nothing was discarded; return df, df_scartate
Return ==
    /\ pc = "concat"
    /\ df_scartate' = Concat(righe_scartate)
    /\ pc' = "done"
    /\ UNCHANGED <<configState, raw, ties, colonne, tariffe, escludi_eventi, k, df, righe_scartate,
                   eccezione, risultato>>

-----------------------------------------------------------------------------
(* load_data of app.py, as one function *)

\* load_data of app.py: the loop over escludi_eventi, from the frame d and the
\* chunks recorded so far, run without events
CicloEventiNoLoop(d, scartate, eventi) == [df |-> d, righe_scartate |-> scartate]

\* for evento in escludi_eventi: mask; scartate; righe_scartate.append; df = df[~mask]
RECURSIVE CicloEventi(_, _, _)
CicloEventi(d, scartate, eventi) ==
    IF eventi = <<>>
    THEN [df |-> d, righe_scartate |-> scartate]
    ELSE LET s == ScartateEvento(d, Head(eventi))
         IN CicloEventi(SopravvissuteEvento(d, Head(eventi)),
                        IF Len(s) > 0 THEN Append(scartate, s) ELSE scartate,
                        Tail(eventi))

Fallita(e) == [exc |-> e, df |-> <<>>, df_scartate |-> <<>>]

\* load_data(uploaded_file, tariffe, escludi_eventi) of app.py on a sheet with
\* the rows sheet and the columns cols: the exception it raises, or the pair
\* (df, df_scartate) it returns
load_data(sheet, cols, t, escl) ==
    LET codici == Keys(t)
        df0 == [n \in DOMAIN sheet |->
                   WithCol(sheet[n], "_indice_originale", IndiceOriginale(n))]
        ciclo == CicloEventi(df0, <<>>, escl)
        df1 == [n \in DOMAIN ciclo.df |->
                   WithCol(ciclo.df[n], "Codice", ExtractCodice(ciclo.df[n]["Attivita"]))]
        scartate_codici == ScartateCodici(df1, codici)
        righe == IF Len(scartate_codici) > 0
                 THEN Append(ciclo.righe_scartate, scartate_codici)
                 ELSE ciclo.righe_scartate
        keep(r) == ~CodiceInvalido(r["Codice"], codici)
        df2 == SelectSeq(df1, keep)
        df3 == [n \in DOMAIN df2 |->
                   LET rif == ToDatetime(DataScelta(df2[n]))
                   IN WithCol(WithCol(WithCol(df2[n],
                          "Tipo", SubSeq(df2[n]["Codice"], 1, 1)),
                          "Data Riferimento", rif),
                          "Anno-Mese", ToPeriod(rif))]
    IN IF escl # <<>> /\ "Evento" \notin cols THEN Fallita("KeyError: Evento")
       ELSE IF "Attivita" \notin cols THEN Fallita("KeyError: Attivita")
       ELSE IF ~(Len(sheet) = 0 \/ \E n \in DOMAIN sheet : sheet[n]["Attivita"] # NaN)
       THEN Fallita("AttributeError: .str")
       ELSE [exc |-> "", df |-> df3, df_scartate |-> Concat(righe)]

\* list(dict.fromkeys(eventi)): the list without its repeated entries, each
\* event at its first position
RECURSIVE Dedup(_)
Dedup(eventi) ==
    IF eventi = <<>> THEN <<>>
    ELSE LET resto == Dedup(SubSeq(eventi, 1, Len(eventi) - 1))
             ultimo == eventi[Len(eventi)]
         IN IF ultimo \in Range(resto) THEN resto ELSE Append(resto, ultimo)

-----------------------------------------------------------------------------
(* AnalisiPolitiche: self.df is df, self.tariffe is tariffe,                *)
(* self.codici = list(tariffe.keys())                                       *)

TOTALE == <<"T", "O", "T", "A", "L", "E">>

\* the number of rows of d whose column c holds v
Count(d, c, v) == Cardinality({n \in DOMAIN d : d[n][c] = v})

\* df.groupby(c).size(): one entry per value of the column, NaN left out, sorted
GroupBySize(d, c) ==
    LET keys == Sorted({d[n][c] : n \in DOMAIN d} \ {NaN})
    IN [n \in DOMAIN keys |-> [key |-> keys[n], size |-> Count(d, c, keys[n])]]

\* conteggio['Conteggio'] * conteggio['Codice'].map(self.tariffe)
RicavoRiga(conteggio, t, codice) ==
    IF codice \in Range(Keys(t)) THEN conteggio * Tariffa(t, codice) ELSE NaN

riepilogo_ricavi(d, t) ==
    LET g == GroupBySize(d, "Codice")
        conteggio == [n \in DOMAIN g |->
            [Codice |-> g[n].key,
             Tariffa |-> IF g[n].key \in Range(Keys(t)) THEN Tariffa(t, g[n].key) ELSE NaN,
             Conteggio |-> g[n].size,
             Ricavo |-> RicavoRiga(g[n].size, t, g[n].key)]]
        totale == [Codice |-> TOTALE,
                   Tariffa |-> NaN,
                   Conteggio |-> SumSeq([n \in DOMAIN conteggio |-> conteggio[n].Conteggio]),
                   \* Series.sum() skips the NaN of the codes without a tariff
                   Ricavo |-> SumSeq([n \in DOMAIN conteggio |->
                                 IF conteggio[n].Codice \in Range(Keys(t))
                                 THEN conteggio[n].Ricavo ELSE 0])]
    IN Append(conteggio, totale)

\* a total that only adds the first tariff
ricavi_totali_first_only(d, t) ==
    IF t = <<>> THEN 0 ELSE Count(d, "Codice", t[1][1]) * t[1][2]

\* sum(conteggio.get(codice, 0) * tariffa for codice, tariffa in self.tariffe.items())
ricavi_totali(d, t) ==
    SumSeq([n \in DOMAIN t |-> Count(d, "Codice", t[n][1]) * t[n][2]])

\* the sum, over the labels in S, of the products of two labelled series
RECURSIVE SommaProdotti(_, _, _)
SommaProdotti(S, a, b) ==
    IF S = {} THEN 0
    ELSE LET l == CHOOSE x \in S : TRUE
         IN a[l] * b[l] + SommaProdotti(S \ {l}, a, b)

\* the 'Ricavi Totali' metric of app.py:
\*   (df.groupby('Codice').size() * df['Codice'].map(tariffe)).sum()
\* The first series is labelled by the codes, the second by the row labels of
\* df (the position of the row in the sheet, kept through the filters).  The
\* product is taken label by label over the union of the labels and is NaN
\* where one side lacks the label; sum() skips NaN.
ricavi_totali_app(d, t) ==
    LET g == GroupBySize(d, "Codice")
        size == [l \in {<<"codice", g[n].key>> : n \in DOMAIN g} |->
                    Count(d, "Codice", l[2])]
        riga(n) == <<"riga", d[n]["_indice_originale"] - 2>>
        mapped == [l \in {riga(n) : n \in DOMAIN d} |->
                      LET n == CHOOSE j \in DOMAIN d : riga(j) = l
                      IN Tariffa(t, d[n]["Codice"])]
    IN SommaProdotti(DOMAIN size \cap DOMAIN mapped, size, mapped)

\* the type rows followed by the code rows, left as concatenated
OrdinaPerTipoNone(both) == both

\* conteggio.sort_values('Tipo')
OrdinaPerTipo(both) == SortSeq(both, LAMBDA a, b : StrLess(a.Tipo, b.Tipo))

\* AnalisiPolitiche.conteggio_totale_tipo
conteggio_totale_tipo(d) ==
    LET gt == GroupBySize(d, "Tipo")
        gc == GroupBySize(d, "Codice")
        both == [n \in DOMAIN gt |-> [Tipo |-> gt[n].key, Conteggio |-> gt[n].size]]
                \o [n \in DOMAIN gc |-> [Tipo |-> gc[n].key, Conteggio |-> gc[n].size]]
    IN Append(OrdinaPerTipo(both),
              [Tipo |-> TOTALE, Conteggio |-> Len(d)])

\* pd.pivot_table(self.df, index='Operatore', columns='Codice', aggfunc='size',
\* fill_value=0): the groups whose operator or code is NaN are dropped; a column
\* of zeros is added for every tariff code the pivot lacks; the columns kept are
\* the tariff codes, sorted; Totale sums them; the rows are sorted by operator
conteggio_per_operatore(d, t) ==
    LET pd == SelectSeq(d, LAMBDA r : r["Operatore"] # NaN /\ r["Codice"] # NaN)
        operatori == Sorted({pd[n]["Operatore"] : n \in DOMAIN pd})
        cols == Sorted(Range(Keys(t)))
        cell(op, c) == Cardinality({n \in DOMAIN pd :
                                       pd[n]["Operatore"] = op /\ pd[n]["Codice"] = c})
    IN [cols |-> cols,
        rows |-> [n \in DOMAIN operatori |->
                    [Operatore |-> operatori[n],
                     n |-> [c \in Range(cols) |-> cell(operatori[n], c)],
                     Totale |-> SumSeq([j \in DOMAIN t |-> cell(operatori[n], t[j][1])])]]]

\* str(Period): 'YYYY-MM', and 'NaT' for the missing period
NaT == <<"N", "a", "T">>
Cifra(n) == Ascii[Ord("0") + n]
Cifre(n, w) == [i \in 1..w |-> Cifra((n \div 10^(w - i)) % 10)]
PeriodStr(p) == IF p = NaN THEN NaT ELSE Cifre(p[1], 4) \o <<"-">> \o Cifre(p[2], 2)

\* a Mese column that leaves out the rows without a period
ConMeseSoloDatate(d) ==
    LET datata(r) == r["Anno-Mese"] # NaN
        datate == SelectSeq(d, datata)
    IN [n \in DOMAIN datate |->
           WithCol(datate[n], "Mese", PeriodStr(datate[n]["Anno-Mese"]))]

\* df_temp['Mese'] = df_temp['Anno-Mese'].astype(str)
ConMese(d) == [n \in DOMAIN d |-> WithCol(d[n], "Mese", PeriodStr(d[n]["Anno-Mese"]))]

\* the order of Timestamp and of Period values
TimeLess(a, b) ==
    \E i \in DOMAIN a : a[i] < b[i] /\ \A j \in 1..(i - 1) : a[j] = b[j]

\* a set of Period values in ascending order
RECURSIVE SortedTime(_)
SortedTime(S) ==
    IF S = {} THEN <<>>
    ELSE LET m == CHOOSE x \in S : \A y \in S \ {x} : TimeLess(x, y)
         IN <<m>> \o SortedTime(S \ {m})

\* pd.pivot_table(d, index=index, columns=columns, aggfunc='size', fill_value=0):
\* the rows whose index or column key is NaN are dropped, the index and the
\* columns are the sorted keys that remain, a cell is the number of rows
PivotSize(d, index, columns) ==
    LET pd == SelectSeq(d, LAMBDA r : r[index] # NaN /\ r[columns] # NaN)
        idx == Sorted({pd[n][index] : n \in DOMAIN pd})
        cols == Sorted({pd[n][columns] : n \in DOMAIN pd})
    IN [index |-> idx,
        columns |-> cols,
        n |-> [i \in Range(idx) |-> [c \in Range(cols) |->
                 Cardinality({n \in DOMAIN pd : pd[n][index] = i /\ pd[n][columns] = c})]]]

\* pivot[cols].sum(axis=1) on one row
SommaColonne(riga, cols) == SumSeq([i \in DOMAIN cols |-> riga[cols[i]]])

\* c.startswith(p)
StartsWith(c, p) == Len(c) >= Len(p) /\ SubSeq(c, 1, Len(p)) = p

\* the comparison for a frame sorted with ascending=True: earlier dates first
PrecedeAscending(d, tie, i, j) ==
    LET a == d[i]["Data Riferimento"]
        b == d[j]["Data Riferimento"]
    IN IF a = NaN THEN b = NaN /\ i < j
       ELSE IF b = NaN THEN TRUE
       ELSE IF a = b THEN (IF tie = "first" THEN i < j ELSE j < i)
       ELSE TimeLess(a, b)

\* row i comes before row j in df.sort_values('Data Riferimento', ascending=False):
\* later dates first, the rows without a date last in their input order, and
\* the rows of one date in the order this build's sort leaves them
Precede(d, tie, i, j) ==
    LET a == d[i]["Data Riferimento"]
        b == d[j]["Data Riferimento"]
    IN IF a = NaN THEN b = NaN /\ i < j
       ELSE IF b = NaN THEN TRUE
       ELSE IF a = b THEN (IF tie = "first" THEN i < j ELSE j < i)
       ELSE TimeLess(b, a)

\* df_sorted.groupby('Destinatario').first()['Operatore']: the groups without a
\* beneficiary are dropped, and first() takes, in the sorted order, the first
\* Operatore of the group that is not null (null if the group has none)
get_operatore_per_persona(d, tie) ==
    LET dest == Sorted({d[n]["Destinatario"] : n \in DOMAIN d} \ {NaN})
        primo(b) ==
            LET cand == {n \in DOMAIN d :
                            d[n]["Destinatario"] = b /\ d[n]["Operatore"] # NaN}
            IN IF cand = {} THEN NaN
               ELSE d[CHOOSE n \in cand :
                        \A j \in cand \ {n} : Precede(d, tie, n, j)]["Operatore"]
    IN [n \in DOMAIN dest |-> [Destinatario |-> dest[n], Operatore |-> primo(dest[n])]]

\* pivot.merge(operatori, on='Destinatario', how='left') for one beneficiary
OperatoreDi(operatori, b) ==
    operatori[CHOOSE n \in DOMAIN operatori : operatori[n].Destinatario = b].Operatore

\* a column order with every type first and the codes after them
ColonneTipiPoiCodici(tipi_unici, codici) ==
    tipi_unici \o Sorted({c \in Range(codici) :
                            \E i \in DOMAIN tipi_unici : StartsWith(c, tipi_unici[i])})

\* for tipo in sorted(tipi_unici): cols_ordinate.append(tipo);
\*     cols_ordinate.extend(sorted([c for c in self.codici if c.startswith(tipo)]))
ColonneOrdinate(tipi_unici, codici) ==
    Flatten([i \in DOMAIN tipi_unici |->
                <<tipi_unici[i]>>
                \o Sorted({c \in Range(codici) : StartsWith(c, tipi_unici[i])})])

\* a total over every count column
ColonneTotaleTutte(tipi_unici, cols) == cols

\* [c for c in tipi_unici if c in pivot.columns]
ColonneTotale(tipi_unici, cols) == SelectSeq(tipi_unici, LAMBDA c : c \in Range(cols))

\* a merge that brings no code column along
CodiciPresentiNone(codici, colonne_pivot) == <<>>

\* codici_presenti = [c for c in self.codici if c in pivot_codice.columns]
CodiciPresenti(codici, colonne_pivot) ==
    SelectSeq(codici, LAMBDA c : c \in Range(colonne_pivot))

\* AnalisiPolitiche.conteggio_per_persona_tipo: cols is the list of the count
\* columns between Destinatario, Operatore and Totale
conteggio_per_persona_tipo(d, t, tie) ==
    LET pivot_tipo == PivotSize(d, "Destinatario", "Tipo")
        pivot_codice == PivotSize(d, "Destinatario", "Codice")
        codici == Keys(t)
        codici_presenti == CodiciPresenti(codici, pivot_codice.columns)
        tipi_unici == Sorted({d[n]["Tipo"] : n \in DOMAIN d})
        \* the merged pivot, with a zero for every column it lacked
        val(b, c) == IF c \in Range(pivot_tipo.columns) THEN pivot_tipo.n[b][c]
                     ELSE IF c \in Range(codici_presenti) THEN pivot_codice.n[b][c]
                     ELSE 0
        operatori == get_operatore_per_persona(d, tie)
        cols == ColonneOrdinate(tipi_unici, codici)
        riga(b) == [c \in Range(cols) |-> val(b, c)]
    IN [cols |-> cols,
        rows |-> [n \in DOMAIN pivot_tipo.index |->
                    LET b == pivot_tipo.index[n]
                    IN [Destinatario |-> b,
                        Operatore |-> OperatoreDi(operatori, b),
                        n |-> riga(b),
                        Totale |-> SommaColonne(riga(b), ColonneTotale(tipi_unici, cols))]]]

\* df_temp['Tipo'] + '_' + df_temp['Anno-Mese'].astype(str)
TipoMese(r) == r["Tipo"] \o <<"_">> \o PeriodStr(r["Anno-Mese"])

\* AnalisiPolitiche.conteggio_per_persona_tipo_mese
conteggio_per_persona_tipo_mese(d, tie) ==
    LET df_temp == [n \in DOMAIN d |-> WithCol(d[n], "Tipo-Mese", TipoMese(d[n]))]
        pivot == PivotSize(df_temp, "Destinatario", "Tipo-Mese")
        operatori == get_operatore_per_persona(d, tie)
    IN [cols |-> pivot.columns,
        rows |-> [n \in DOMAIN pivot.index |->
                    LET b == pivot.index[n]
                    IN [Destinatario |-> b,
                        Operatore |-> OperatoreDi(operatori, b),
                        n |-> pivot.n[b]]]]

\* AnalisiPolitiche.conteggio_totale_tipo_mese: the pivot's columns are the
\* Period values themselves, so the rows without a period are dropped; the
\* labels are turned to text afterwards
conteggio_totale_tipo_mese(d) ==
    LET pd == SelectSeq(d, LAMBDA r : r["Tipo"] # NaN /\ r["Anno-Mese"] # NaN)
        tipi == Sorted({pd[n]["Tipo"] : n \in DOMAIN pd})
        mesi == SortedTime({pd[n]["Anno-Mese"] : n \in DOMAIN pd})
        cell(tp, m) == Cardinality({n \in DOMAIN pd :
                                      pd[n]["Tipo"] = tp /\ pd[n]["Anno-Mese"] = m})
        mesi_cols == [i \in DOMAIN mesi |-> PeriodStr(mesi[i])]
        riga(tp) == [c \in Range(mesi_cols) |->
                        cell(tp, mesi[CHOOSE i \in DOMAIN mesi : mesi_cols[i] = c])]
        pivot == [n \in DOMAIN tipi |-> [Tipo |-> tipi[n], n |-> riga(tipi[n])]]
        totali == [c \in Range(mesi_cols) |->
                     SumSeq([n \in DOMAIN pivot |-> pivot[n].n[c]])]
    IN [cols |-> mesi_cols,
        rows |-> Append(pivot, [Tipo |-> TOTALE, n |-> totali])]

\* AnalisiPolitiche.conteggio_per_operatore_mese: the index is the pair
\* (Operatore, Mese); the rows without an operator are dropped
conteggio_per_operatore_mese(d, t) ==
    LET pd == SelectSeq(ConMese(d), LAMBDA r : r["Operatore"] # NaN /\ r["Codice"] # NaN)
        codici == Keys(t)
        operatori == Sorted({pd[n]["Operatore"] : n \in DOMAIN pd})
        mesi(op) == Sorted({pd[n]["Mese"] : n \in {j \in DOMAIN pd : pd[j]["Operatore"] = op}})
        cell(op, m, c) == Cardinality({n \in DOMAIN pd : /\ pd[n]["Operatore"] = op
                                                          /\ pd[n]["Mese"] = m
                                                          /\ pd[n]["Codice"] = c})
        cols == Sorted(Range(codici))
    IN [cols |-> cols,
        rows |-> Flatten([i \in DOMAIN operatori |->
                    [j \in DOMAIN mesi(operatori[i]) |->
                        LET op == operatori[i]
                            m == mesi(op)[j]
                            riga == [c \in Range(cols) |-> cell(op, m, c)]
                        IN [Operatore |-> op, Mese |-> m, n |-> riga,
                            Totale |-> SommaColonne(riga, codici)]]])]

\* a revenue table with columns only for the codes that occur
ColonneCodiceSoloPresenti(d, t) == Sorted({d[n]["Codice"] : n \in DOMAIN d} \ {NaN})

\* cols_codice = sorted(self.tariffe.keys())
ColonneCodice(d, t) == Sorted(Range(Keys(t)))

\* AnalisiPolitiche.calcolo_ricavi_per_mese: cols_codice are the count columns,
\* cols_ricavo the '<code>_ricavo' columns in the order they are created, which
\* is the insertion order of the tariff dict
calcolo_ricavi_per_mese(d, t) ==
    LET pivot == PivotSize(ConMese(d), "Mese", "Codice")
        cols_codice == ColonneCodice(d, t)
        conteggio(m, c) == IF c \in Range(pivot.columns) THEN pivot.n[m][c] ELSE 0
    IN [cols_codice |-> cols_codice,
        cols_ricavo |-> SelectSeq(Keys(t), LAMBDA c : c \in Range(cols_codice)),
        rows |-> [n \in DOMAIN pivot.index |->
                    LET m == pivot.index[n]
                        riga == [c \in Range(cols_codice) |-> conteggio(m, c)]
                        ricavo == [c \in Range(cols_codice) |-> riga[c] * Tariffa(t, c)]
                    IN [Mese |-> m, n |-> riga, ricavo |-> ricavo,
                        Totale_Conteggio |-> SommaColonne(riga, cols_codice),
                        Totale_Ricavo |-> SommaColonne(ricavo, cols_codice)]]]

\* a TOTALE that adds the operators' counts
TotaleUtentiSomma(d, conteggi) == SumSeq(conteggi)

\* self.df['Destinatario'].nunique()
TotaleUtenti(d, conteggi) == Cardinality({d[n]["Destinatario"] : n \in DOMAIN d} \ {NaN})

\* row i of the grouped counts comes before row j in
\* sort_values('Numero Utenti', ascending=False)
PrecedeUtenti(u, tie, i, j) ==
    IF u[i] = u[j] THEN (IF tie = "first" THEN i < j ELSE j < i) ELSE u[i] > u[j]

\* AnalisiPolitiche.utenti_per_operatore
utenti_per_operatore(d, tie) ==
    LET operatori == Sorted({d[n]["Operatore"] : n \in DOMAIN d} \ {NaN})
        \* groupby('Operatore')['Destinatario'].nunique()
        u == [i \in DOMAIN operatori |->
                Cardinality({d[n]["Destinatario"] :
                    n \in {j \in DOMAIN d : d[j]["Operatore"] = operatori[i]}} \ {NaN})]
        posto(i) == 1 + Cardinality({j \in DOMAIN u : j # i /\ PrecedeUtenti(u, tie, j, i)})
        utenti == [p \in DOMAIN u |->
                     LET i == CHOOSE x \in DOMAIN u : posto(x) = p
                     IN [Operatore |-> operatori[i], Numero_Utenti |-> u[i]]]
    IN Append(utenti, [Operatore |-> TOTALE, Numero_Utenti |-> TotaleUtenti(d, u)])

\* AnalisiPolitiche.andamento_mensile
andamento_mensile(d) ==
    LET pivot == PivotSize(ConMese(d), "Mese", "Tipo")
    IN [cols |-> pivot.columns,
        rows |-> [n \in DOMAIN pivot.index |->
                    LET m == pivot.index[n]
                    IN [Mese |-> m, n |-> pivot.n[m],
                        Totale |-> SommaColonne(pivot.n[m], pivot.columns)]]]

\* what an aggregation leaves alone
loadState == <<configState, raw, ties, colonne, tariffe, escludi_eventi, pc, k, df, righe_scartate,
               df_scartate, eccezione>>

RiepilogoRicavi ==
    /\ pc = "done"
    /\ risultato' = [op |-> "riepilogo_ricavi", exc |-> "",
                     val |-> riepilogo_ricavi(df, tariffe)]
    /\ UNCHANGED loadState

RicaviTotali ==
    /\ pc = "done"
    /\ risultato' = [op |-> "ricavi_totali", exc |-> "",
                     val |-> ricavi_totali(df, tariffe)]
    /\ UNCHANGED loadState

ConteggioTotaleTipo ==
    /\ pc = "done"
    /\ risultato' = [op |-> "conteggio_totale_tipo", exc |-> "",
                     val |-> conteggio_totale_tipo(df)]
    /\ UNCHANGED loadState

ConteggioPerOperatore ==
    /\ pc = "done"
    /\ risultato' = IF "Operatore" \in colonne
                     THEN [op |-> "conteggio_per_operatore", exc |-> "",
                           val |-> conteggio_per_operatore(df, tariffe)]
                     \* pivot_table raises on the index column the frame lacks
                     ELSE [op |-> "conteggio_per_operatore",
                           exc |-> "KeyError: Operatore", val |-> <<>>]
    /\ UNCHANGED loadState

ConteggioPerPersonaTipo ==
    /\ pc = "done"
    /\ risultato' =
         IF "Destinatario" \notin colonne
         THEN [op |-> "conteggio_per_persona_tipo",
               exc |-> "KeyError: Destinatario", val |-> <<>>]
         \* _get_operatore_per_persona selects the Operatore column
         ELSE IF "Operatore" \notin colonne
         THEN [op |-> "conteggio_per_persona_tipo",
               exc |-> "KeyError: Operatore", val |-> <<>>]
         ELSE [op |-> "conteggio_per_persona_tipo", exc |-> "",
               val |-> conteggio_per_persona_tipo(df, tariffe, ties)]
    /\ UNCHANGED loadState

ConteggioPerPersonaTipoMese ==
    /\ pc = "done"
    /\ risultato' =
         IF "Destinatario" \notin colonne
         THEN [op |-> "conteggio_per_persona_tipo_mese",
               exc |-> "KeyError: Destinatario", val |-> <<>>]
         ELSE IF "Operatore" \notin colonne
         THEN [op |-> "conteggio_per_persona_tipo_mese",
               exc |-> "KeyError: Operatore", val |-> <<>>]
         ELSE [op |-> "conteggio_per_persona_tipo_mese", exc |-> "",
               val |-> conteggio_per_persona_tipo_mese(df, ties)]
    /\ UNCHANGED loadState

ConteggioTotaleTipoMese ==
    /\ pc = "done"
    /\ risultato' = [op |-> "conteggio_totale_tipo_mese", exc |-> "",
                     val |-> conteggio_totale_tipo_mese(df)]
    /\ UNCHANGED loadState

ConteggioPerOperatoreMese ==
    /\ pc = "done"
    /\ risultato' = IF "Operatore" \in colonne
                     THEN [op |-> "conteggio_per_operatore_mese", exc |-> "",
                           val |-> conteggio_per_operatore_mese(df, tariffe)]
                     ELSE [op |-> "conteggio_per_operatore_mese",
                           exc |-> "KeyError: Operatore", val |-> <<>>]
    /\ UNCHANGED loadState

\* a variant that works on self.df itself: df_temp = self.df, so that
\* df_temp['Mese'] = ... adds the column to the analysed table
CalcoloRicaviPerMeseInPlace ==
    /\ pc = "done"
    /\ df' = ConMese(df)
    /\ risultato' = [op |-> "calcolo_ricavi_per_mese", exc |-> "",
                     val |-> calcolo_ricavi_per_mese(df, tariffe)]
    /\ UNCHANGED <<configState, raw, ties, colonne, tariffe, escludi_eventi, pc, k, righe_scartate,
                   df_scartate, eccezione>>

CalcoloRicaviPerMese ==
    /\ pc = "done"
    /\ risultato' = [op |-> "calcolo_ricavi_per_mese", exc |-> "",
                     val |-> calcolo_ricavi_per_mese(df, tariffe)]
    /\ UNCHANGED loadState

UtentiPerOperatore ==
    /\ pc = "done"
    /\ risultato' =
         IF "Operatore" \notin colonne
         THEN [op |-> "utenti_per_operatore", exc |-> "KeyError: Operatore", val |-> <<>>]
         ELSE IF "Destinatario" \notin colonne
         THEN [op |-> "utenti_per_operatore", exc |-> "KeyError: Destinatario", val |-> <<>>]
         ELSE [op |-> "utenti_per_operatore", exc |-> "",
               val |-> utenti_per_operatore(df, ties)]
    /\ UNCHANGED loadState

AndamentoMensile ==
    /\ pc = "done"
    /\ risultato' = [op |-> "andamento_mensile", exc |-> "",
                     val |-> andamento_mensile(df)]
    /\ UNCHANGED loadState

\* DataLoader.prepara_scartate_per_export, and the same lines of
\* ExcelExporter: the columns to show and the headers they are given
cols_to_show ==
    <<"_indice_originale", "Destinatario", "Operatore", "Attivita", "Evento",
      "_motivo_esclusione">>

Intestazioni ==
    <<"Riga Excel", "Destinatario", "Operatore", "Attivita", "Evento",
      "Motivo Esclusione">>

\* the exported table: its headers in order, and per row the cells in the
\* order of the headers
prepara_scartate_per_export(d) ==
    IF Len(d) = 0
    THEN [columns |-> Intestazioni, rows |-> <<>>]
    ELSE LET presenti(c) == c \in DOMAIN d[1]
             cols_available == SelectSeq(cols_to_show, presenti)
         IN [columns |-> SubSeq(Intestazioni, 1, Len(cols_available)),
             rows |-> [n \in DOMAIN d |->
                         [j \in DOMAIN cols_available |-> d[n][cols_available[j]]]]]

PreparaScartatePerExport ==
    /\ pc = "done"
    /\ risultato' = [op |-> "prepara_scartate_per_export", exc |-> "",
                     val |-> prepara_scartate_per_export(df_scartate)]
    /\ UNCHANGED loadState

\* the metric 'Ricavi Totali' shown above the tabs
RicaviTotaliApp ==
    /\ pc = "done"
    /\ risultato' = [op |-> "app_ricavi_totali", exc |-> "",
                     val |-> ricavi_totali_app(df, tariffe)]
    /\ UNCHANGED loadState

\* the dashboard's own loader, called on the same upload with the same settings
LoadData ==
    /\ pc \in {"done", "raised"}
    /\ LET r == load_data(raw, colonne, tariffe, escludi_eventi)
       IN risultato' = [op |-> "load_data", exc |-> r.exc,
                        val |-> [df |-> r.df, df_scartate |-> r.df_scartate]]
    /\ UNCHANGED loadState

-----------------------------------------------------------------------------
(* Inputs *)

P1 == <<"P", "1">>
P2 == <<"P", "2">>
OpX == <<"X">>
OpY == <<"Y">>

Completato == <<"C", "o", "m", "p", "l", "e", "t", "a", "t", "o">>
Proposta == <<"P", "r", "o", "p", "o", "s", "t", "a">>
Annullamento == <<"A", "n", "n", "u", "l", "l", "a", "m", "e", "n", "t", "o">>

A03 == <<"A", "0", "3">>
A06 == <<"A", "0", "6">>
B03 == <<"B", "0", "3">>
B04 == <<"B", "0", "4">>

AttA03 == <<"A", "0", "3", " ", "a">>
AttA06 == <<"A", "0", "6", " ", "a">>
AttB04 == <<"B", "0", "4", " ", "b">>
AttC06 == <<"C", "0", "6", " ", "c">>
AttZ99 == <<"Z", "9", "9">>
AttA031 == <<"A", "0", "3", "1">>
Atta03 == <<"a", "0", "3">>

D_15_01_2024 == <<"1", "5", "/", "0", "1", "/", "2", "0", "2", "4">>
D_03_02_2024 == <<"0", "3", "/", "0", "2", "/", "2", "0", "2", "4">>
D_7_3_2024 == <<"7", "/", "3", "/", "2", "0", "2", "4">>
D_31_02_2024 == <<"3", "1", "/", "0", "2", "/", "2", "0", "2", "4">>
D_2024_01_15 == <<"2", "0", "2", "4", "-", "0", "1", "-", "1", "5">>

\* the tariff mappings tried: in sorted and in unsorted insertion order
Tariffe1 == << <<A03, 3714>> >>
Tariffe3 == << <<C06, 49988>>, <<A03, 3714>>, <<A06, 3557>> >>
\* DEFAULT_TARIFFE
TariffeDefault == << <<A03, 3714>>, <<A06, 3557>>, <<B03, 3714>>, <<B04, 3714>>,
                     <<C06, 49988>> >>

RequiredCols == {"Destinatario", "Operatore", "Attivita", "Evento"}
AllCols == RequiredCols \cup {"Data Fine", "Data Proposta"}

MkRow(dest, op, att, ev, fine, prop) ==
    [c \in AllCols |->
        CASE c = "Destinatario" -> dest
          [] c = "Operatore" -> op
          [] c = "Attivita" -> att
          [] c = "Evento" -> ev
          [] c = "Data Fine" -> fine
          [] c = "Data Proposta" -> prop]

\* the sequences over S of length at most n
SeqsUpTo(S, n) == UNION {[1..m -> S] : m \in 0..n}

\* the sheet without the columns outside cols
Project(rows, cols) == [n \in DOMAIN rows |-> [c \in cols |-> rows[n][c]]]

\* a dict of tariffs as a function from its keys to their values
Dict(t) == [c \in Range(Keys(t)) |-> Tariffa(t, c)]

AnnullamentoPrima == <<"Annullamento (prima dell'inizio)">>

\* DEFAULT_CONFIG as written in the class body
DefaultDocumentato ==
    [tariffe |-> Dict(TariffeDefault),
     escludi_eventi |-> <<AnnullamentoPrima, Proposta>>]

NessunFile == [stato |-> "missing", tariffe |-> <<>>, escludi_eventi |-> <<>>]

\* no ConfigManager has been constructed
ConfigIdle ==
    /\ DEFAULT_CONFIG = DefaultDocumentato
    /\ istanze = <<>>
    /\ config_json = NessunFile

Idle ==
    /\ ConfigIdle
    /\ pc = "read" /\ k = 1 /\ df = <<>> /\ righe_scartate = <<>>
    /\ df_scartate = <<>> /\ eccezione = "" /\ risultato = [op |-> "", exc |-> "", val |-> <<>>]

\* rows that differ in activity and event
RowsLoad ==
    {MkRow(P1, OpX, att, ev, D_15_01_2024, D_03_02_2024) :
        att \in {AttA03, AttZ99, AttA031, Atta03, NaN},
        ev \in {Completato, Proposta, Annullamento}}

Init ==
    /\ tariffe = Tariffe3
    /\ escludi_eventi \in {<<>>, <<Proposta>>, <<Annullamento, Proposta>>,
                           <<Proposta, Proposta>>}
    /\ colonne = AllCols
    /\ raw \in SeqsUpTo(RowsLoad, MaxRows)
    /\ ties = "first"
    /\ Idle

\* rows whose code is in one tariff dict, in both or in none
RowsTariffe ==
    {MkRow(P1, OpX, att, ev, D_15_01_2024, D_03_02_2024) :
        att \in {AttA03, AttA06, AttC06, AttZ99, AttA031},
        ev \in {Completato, Proposta}}

InitTariffe ==
    /\ tariffe \in {Tariffe1, Tariffe3, TariffeDefault}
    /\ escludi_eventi = <<Proposta>>
    /\ colonne = AllCols
    /\ raw \in SeqsUpTo(RowsTariffe, MaxRows)
    /\ ties = "first"
    /\ Idle

\* sheets that lack some of the required columns
RowsColonne ==
    {MkRow(P1, OpX, att, ev, D_15_01_2024, D_03_02_2024) :
        att \in {AttA03, AttZ99, NaN}, ev \in {Completato, Proposta}}

InitColonne ==
    /\ tariffe = Tariffe3
    /\ escludi_eventi \in {<<>>, <<Proposta>>}
    /\ colonne \in {AllCols \ missing : missing \in SUBSET RequiredCols}
    /\ \E rows \in SeqsUpTo(RowsColonne, MaxRows) : raw = Project(rows, colonne)
    /\ ties = "first"
    /\ Idle

\* every activity text of at most MaxLen characters over a small alphabet
Alfabeto == {"A", "a", "0", "3", "1", " "}

RowsExtract ==
    {MkRow(P1, OpX, att, Completato, D_15_01_2024, D_03_02_2024) :
        att \in SeqsUpTo(Alfabeto, MaxLen) \ {<<>>}}

InitExtract ==
    /\ tariffe = Tariffe3
    /\ escludi_eventi = <<Proposta>>
    /\ colonne = AllCols
    /\ raw \in {<<r>> : r \in RowsExtract}
    /\ ties = "first"
    /\ Idle

\* rows that differ in code and in the two date cells
RowsDate ==
    {MkRow(P1, OpX, att, Completato, fine, prop) :
        att \in {AttA03, AttC06},
        fine \in {D_15_01_2024, D_31_02_2024, NaN},
        prop \in {D_7_3_2024, D_2024_01_15, NaN}}

InitDate ==
    /\ tariffe = Tariffe3
    /\ escludi_eventi = <<Proposta>>
    /\ colonne = AllCols
    /\ raw \in SeqsUpTo(RowsDate, MaxRows)
    /\ ties = "first"
    /\ Idle

\* rows that differ in beneficiary, operator and code
RowsAgg ==
    {MkRow(dest, op, att, Completato, D_15_01_2024, D_7_3_2024) :
        dest \in {P1, P2}, op \in {OpX, OpY}, att \in {AttA03, AttA06, AttC06}}

InitAgg ==
    /\ tariffe \in {Tariffe3, TariffeDefault}
    /\ escludi_eventi = <<Proposta>>
    /\ colonne = AllCols
    /\ raw \in SeqsUpTo(RowsAgg, MaxRows)
    /\ ties = "first"
    /\ Idle

\* rows that differ in beneficiary, operator and reference date, some without
\* an operator and some without a date
RowsPersone ==
    {MkRow(P1, op, AttA03, Completato, fine, D_7_3_2024) :
        op \in {OpX, OpY, NaN}, fine \in {D_15_01_2024, D_03_02_2024, NaN}}
    \cup {MkRow(P2, OpY, AttA03, Completato, fine, D_7_3_2024) :
        fine \in {D_15_01_2024, NaN}}

InitPersone ==
    /\ tariffe = TariffeDefault
    /\ escludi_eventi = <<Proposta>>
    /\ colonne = AllCols
    /\ raw \in SeqsUpTo(RowsPersone, MaxRows)
    /\ ties \in {"first", "last"}
    /\ Idle

\* up to MaxUtenti rows that differ in beneficiary and operator
RowsUtenti ==
    {MkRow(dest, op, AttA03, Completato, D_15_01_2024, D_7_3_2024) :
        dest \in {P1, P2}, op \in {OpX, OpY, NaN}}

InitUtenti ==
    /\ tariffe = TariffeDefault
    /\ escludi_eventi = <<Proposta>>
    /\ colonne = AllCols
    /\ raw \in SeqsUpTo(RowsUtenti, MaxUtenti)
    /\ ties \in {"first", "last"}
    /\ Idle

\* the sheet of the worked example: a kept row, a row of an excluded event and
\* a row of a code without a tariff; the cells the example leaves open vary
Completed == <<"C", "o", "m", "p", "l", "e", "t", "e", "d">>
D_01_01_2024 == <<"0", "1", "/", "0", "1", "/", "2", "0", "2", "4">>

InitScenario ==
    /\ tariffe = Tariffe1
    /\ escludi_eventi = <<Proposta>>
    /\ colonne = AllCols
    /\ \E d2, d3 \in {P1, P2}, o2, o3 \in {OpX, OpY, NaN},
          f2, f3 \in {D_01_01_2024, NaN}, e3 \in {Completed, Completato} :
          raw = << MkRow(P1, OpX, AttA03, Completed, D_01_01_2024, NaN),
                   MkRow(d2, o2, AttA03, Proposta, f2, NaN),
                   MkRow(d3, o3, AttZ99, e3, f3, NaN) >>
    /\ ties = "first"
    /\ Idle

\* excluded lists that name an event more than once
RowsDuplicati ==
    {MkRow(P1, OpX, att, ev, D_15_01_2024, D_03_02_2024) :
        att \in {AttA03, AttZ99}, ev \in {Completato, Proposta, Annullamento}}

InitDuplicati ==
    /\ tariffe = Tariffe3
    /\ escludi_eventi \in {<<Proposta, Proposta>>, <<Proposta, Annullamento, Proposta>>,
                           <<Annullamento, Proposta, Proposta, Annullamento>>}
    /\ colonne = AllCols
    /\ raw \in SeqsUpTo(RowsDuplicati, MaxRows)
    /\ ties = "first"
    /\ Idle

\* a few valid rows of two beneficiaries and two codes, for the steps that
\* follow the load
RowsFrame ==
    {MkRow(dest, OpX, att, Completato, D_15_01_2024, D_7_3_2024) :
        dest \in {P1, P2}, att \in {AttA03, AttC06}}

InitFrame ==
    /\ tariffe \in {Tariffe3, TariffeDefault}
    /\ escludi_eventi = <<Proposta>>
    /\ colonne = AllCols
    /\ raw \in SeqsUpTo(RowsFrame, MaxRows)
    /\ ties = "first"
    /\ Idle

-----------------------------------------------------------------------------
(* ConfigManager (src/src/config.py).                                      *)
(* dict.copy() is shallow: the copy of DEFAULT_CONFIG holds the very dicts *)
(* "tariffe" and "filtri" of the class.  An instance's _config therefore   *)
(* either shares such a dict with the class (di_classe) or holds a dict of *)
(* its own, whose content is then kept in the instance's record.           *)

MaxIstanze == 2

Minuscole == <<"a", "b", "c", "z">>
Maiuscole == <<"A", "B", "C", "Z">>

\* str.upper() on the characters of the codes used here
UpperChar(c) ==
    IF \E n \in DOMAIN Minuscole : Minuscole[n] = c
    THEN Maiuscole[CHOOSE n \in DOMAIN Minuscole : Minuscole[n] = c]
    ELSE c

Upper(s) == [n \in DOMAIN s |-> UpperChar(s[n])]

\* d[key] = value
DictSet(d, key, value) == [c \in DOMAIN d \cup {key} |-> IF c = key THEN value ELSE d[c]]

\* del d[key]
DictDel(d, key) == [c \in DOMAIN d \ {key} |-> d[c]]

\* self._config["tariffe"], self._config["filtri"]["escludi_eventi"]
TariffeDi(i) ==
    IF istanze[i].tariffe_di_classe THEN DEFAULT_CONFIG.tariffe ELSE istanze[i].tariffe

EventiDi(i) ==
    IF istanze[i].filtri_di_classe
    THEN DEFAULT_CONFIG.escludi_eventi
    ELSE istanze[i].escludi_eventi

\* DEFAULT_CONFIG.copy(): a new outer dict around the dicts of the class
CopiaDefault ==
    [tariffe_di_classe |-> TRUE, tariffe |-> <<>>,
     filtri_di_classe |-> TRUE, escludi_eventi |-> <<>>]

\* _merge_with_defaults(config): the dicts of config where it has the key,
\* the dicts of the class where it has not
merge_with_defaults(config) ==
    [tariffe_di_classe |-> ~config.ha_tariffe,
     tariffe |-> IF config.ha_tariffe THEN config.tariffe ELSE <<>>,
     filtri_di_classe |-> ~config.ha_filtri,
     escludi_eventi |-> IF config.ha_filtri THEN config.escludi_eventi ELSE <<>>]

\* json.dump(config, f): the content of the dicts at the time of the call
Scritto(t, ev) == [stato |-> "ok", tariffe |-> t, escludi_eventi |-> ev]

\* json.load(f), of a file that _save_config wrote
Letto == [ha_tariffe |-> TRUE, tariffe |-> config_json.tariffe,
          ha_filtri |-> TRUE, escludi_eventi |-> config_json.escludi_eventi]

pipelineState == <<raw, ties, colonne, tariffe, escludi_eventi, pc, k, df,
                   righe_scartate, df_scartate, eccezione>>

Fatto(op, i) == risultato' = [op |-> op, exc |-> "", val |-> i]

\* _load_config for instance i (Len(istanze) + 1 for a new one); salvato says
\* whether the write of the defaults to a missing file succeeds.  save() and
\* reload() are not among the steps: the file changes only here
LoadConfig(i, salvato) ==
    CASE config_json.stato = "ok" ->
           /\ istanze' = IF i \in DOMAIN istanze
                         THEN [istanze EXCEPT ![i] = merge_with_defaults(Letto)]
                         ELSE Append(istanze, merge_with_defaults(Letto))
           /\ UNCHANGED config_json
      [] config_json.stato = "unreadable" ->
           /\ istanze' = IF i \in DOMAIN istanze
                         THEN [istanze EXCEPT ![i] = CopiaDefault]
                         ELSE Append(istanze, CopiaDefault)
           /\ UNCHANGED config_json
      [] config_json.stato = "missing" ->
           /\ istanze' = IF i \in DOMAIN istanze
                         THEN [istanze EXCEPT ![i] = CopiaDefault]
                         ELSE Append(istanze, CopiaDefault)
           /\ config_json' = IF salvato
                             THEN Scritto(DEFAULT_CONFIG.tariffe,
                                          DEFAULT_CONFIG.escludi_eventi)
                             ELSE config_json

\* ConfigManager(config_path)
Costruisci ==
    /\ Len(istanze) < MaxIstanze
    /\ \E salvato \in BOOLEAN : LoadConfig(Len(istanze) + 1, salvato)
    /\ Fatto("__init__", Len(istanze) + 1)
    /\ UNCHANGED <<DEFAULT_CONFIG, pipelineState>>

z99 == <<"z", "9", "9">>
Z99 == <<"Z", "9", "9">>
\* codes passed to aggiungi_tariffa, and to rimuovi_tariffa
CodiciDati == {z99}
CodiciRimossi == {Atta03, z99}
ValoriDati == {100}
TariffeDate == {Dict(Tariffe1)}
EventiDati == {<<Proposta>>}

\* the tariffs dict of instance i becomes t, written where that dict lives
ScriviTariffe(i, t) ==
    IF istanze[i].tariffe_di_classe
    THEN /\ DEFAULT_CONFIG' = [DEFAULT_CONFIG EXCEPT !.tariffe = t]
         /\ UNCHANGED istanze
    ELSE /\ istanze' = [istanze EXCEPT ![i].tariffe = t]
         /\ UNCHANGED DEFAULT_CONFIG

\* self._config["tariffe"][codice.upper()] = valore
AggiungiTariffa ==
    \E i \in DOMAIN istanze, codice \in CodiciDati, valore \in ValoriDati :
        /\ ScriviTariffe(i, DictSet(TariffeDi(i), Upper(codice), valore))
        /\ Fatto("aggiungi_tariffa", i)
        /\ UNCHANGED <<config_json, pipelineState>>

\* if codice.upper() in self._config["tariffe"]: del ...
RimuoviTariffa ==
    \E i \in DOMAIN istanze, codice \in CodiciRimossi :
        /\ ScriviTariffe(i, IF Upper(codice) \in DOMAIN TariffeDi(i)
                            THEN DictDel(TariffeDi(i), Upper(codice))
                            ELSE TariffeDi(i))
        /\ Fatto("rimuovi_tariffa", i)
        /\ UNCHANGED <<config_json, pipelineState>>

\* tariffe setter: self._config["tariffe"] = value, a dict of the caller
SetTariffe ==
    \E i \in DOMAIN istanze, value \in TariffeDate :
        /\ istanze' = [istanze EXCEPT ![i].tariffe_di_classe = FALSE,
                                      ![i].tariffe = value]
        /\ Fatto("tariffe", i)
        /\ UNCHANGED <<DEFAULT_CONFIG, config_json, pipelineState>>

\* escludi_eventi setter: self._config["filtri"]["escludi_eventi"] = value,
\* an item assignment on the filtri dict the instance holds
SetEscludiEventi ==
    \E i \in DOMAIN istanze, value \in EventiDati :
        /\ IF istanze[i].filtri_di_classe
           THEN /\ DEFAULT_CONFIG' = [DEFAULT_CONFIG EXCEPT !.escludi_eventi = value]
                /\ UNCHANGED istanze
           ELSE /\ istanze' = [istanze EXCEPT ![i].escludi_eventi = value]
                /\ UNCHANGED DEFAULT_CONFIG
        /\ Fatto("escludi_eventi", i)
        /\ UNCHANGED <<config_json, pipelineState>>

\* self._config["tariffe"] = self.DEFAULT_CONFIG["tariffe"].copy()
ResetTariffe ==
    \E i \in DOMAIN istanze :
        /\ istanze' = [istanze EXCEPT ![i].tariffe_di_classe = FALSE,
                                      ![i].tariffe = DEFAULT_CONFIG.tariffe]
        /\ Fatto("reset_tariffe", i)
        /\ UNCHANGED <<DEFAULT_CONFIG, config_json, pipelineState>>

\* self._config = self.DEFAULT_CONFIG.copy()
ResetAll ==
    \E i \in DOMAIN istanze :
        /\ istanze' = [istanze EXCEPT ![i] = CopiaDefault]
        /\ Fatto("reset_all", i)
        /\ UNCHANGED <<DEFAULT_CONFIG, config_json, pipelineState>>

\* d = to_dict(); d["tariffe"][codice] = valore: to_dict returns
\* self._config.copy(), whose "tariffe" is the dict the instance holds
ToDictMuta ==
    \E i \in DOMAIN istanze, valore \in ValoriDati :
        /\ ScriviTariffe(i, DictSet(TariffeDi(i), Z99, valore))
        /\ Fatto("to_dict", i)
        /\ UNCHANGED <<config_json, pipelineState>>

\* dicts a caller passes to from_dict: without keys, with both keys
ConfigDati ==
    {[ha_tariffe |-> FALSE, tariffe |-> <<>>, ha_filtri |-> FALSE, escludi_eventi |-> <<>>],
     [ha_tariffe |-> TRUE, tariffe |-> Dict(Tariffe1),
      ha_filtri |-> TRUE, escludi_eventi |-> <<Proposta>>]}

\* self._config = self._merge_with_defaults(config)
FromDict ==
    \E i \in DOMAIN istanze, config \in ConfigDati :
        /\ istanze' = [istanze EXCEPT ![i] = merge_with_defaults(config)]
        /\ Fatto("from_dict", i)
        /\ UNCHANGED <<DEFAULT_CONFIG, config_json, pipelineState>>

\* the class as loaded, and a config file that is missing, unreadable, or
\* holds the defaults
InitConfig ==
    /\ DEFAULT_CONFIG = DefaultDocumentato
    /\ istanze = <<>>
    /\ config_json \in {NessunFile,
                        [stato |-> "unreadable", tariffe |-> <<>>, escludi_eventi |-> <<>>],
                        Scritto(DefaultDocumentato.tariffe,
                                DefaultDocumentato.escludi_eventi)}
    /\ tariffe = TariffeDefault
    /\ escludi_eventi = <<>>
    /\ colonne = AllCols
    /\ raw = <<>>
    /\ ties = "first"
    /\ pc = "read" /\ k = 1 /\ df = <<>> /\ righe_scartate = <<>>
    /\ df_scartate = <<>> /\ eccezione = ""
    /\ risultato = [op |-> "", exc |-> "", val |-> 0]

NextConfig ==
    \/ Costruisci
    \/ AggiungiTariffa
    \/ RimuoviTariffa
    \/ SetTariffe
    \/ SetEscludiEventi
    \/ ResetTariffe
    \/ ResetAll
    \/ ToDictMuta
    \/ FromDict

SpecConfig == InitConfig /\ [][NextConfig]_vars

\* the operations a reset is said to undo, from a config file that is
\* missing or cannot be read
InitReset ==
    /\ InitConfig
    /\ config_json.stato \in {"missing", "unreadable"}

NextReset ==
    \/ Costruisci
    \/ AggiungiTariffa
    \/ RimuoviTariffa
    \/ SetTariffe
    \/ ResetAll
    \/ ResetTariffe

SpecReset == InitReset /\ [][NextReset]_vars

-----------------------------------------------------------------------------
(* The pipeline's steps *)

Next ==
    \/ ReadExcel
    \/ EscludiEvento
    \/ EstraiCodice
    \/ EscludiCodici
    \/ CalcolaDate
    \/ Return
    \/ RiepilogoRicavi
    \/ RicaviTotali
    \/ ConteggioTotaleTipo
    \/ ConteggioPerOperatore
    \/ ConteggioPerPersonaTipo
    \/ ConteggioPerPersonaTipoMese
    \/ ConteggioTotaleTipoMese
    \/ ConteggioPerOperatoreMese
    \/ CalcoloRicaviPerMese
    \/ UtentiPerOperatore
    \/ AndamentoMensile
    \/ LoadData
    \/ RicaviTotaliApp
    \/ PreparaScartatePerExport

Spec == Init /\ [][Next]_vars
SpecTariffe == InitTariffe /\ [][Next]_vars
SpecColonne == InitColonne /\ [][Next]_vars
SpecExtract == InitExtract /\ [][Next]_vars
SpecDate == InitDate /\ [][Next]_vars
SpecAgg == InitAgg /\ [][Next]_vars
SpecPersone == InitPersone /\ [][Next]_vars
SpecUtenti == InitUtenti /\ [][Next]_vars
SpecScenario == InitScenario /\ [][Next]_vars
SpecDuplicati == InitDuplicati /\ [][Next]_vars
SpecFrame == InitFrame /\ [][Next]_vars

-----------------------------------------------------------------------------
(* Properties of DataLoader.load *)

Indici(d) == [n \in DOMAIN d |-> d[n]["_indice_originale"]]

NoRepeat(s) == \A a, b \in DOMAIN s : a # b => s[a] # s[b]

C2_EventBeforeCode ==
    /\ pc \in {"read", "eventi"} =>
          /\ \A n \in DOMAIN df : "Codice" \notin DOMAIN df[n]
          /\ \A a \in DOMAIN righe_scartate : \A n \in DOMAIN righe_scartate[a] :
                /\ "Codice" \notin DOMAIN righe_scartate[a][n]
                /\ righe_scartate[a][n]["_motivo_esclusione"][1] = "Evento escluso: "
    /\ pc \in {"codici", "date", "concat", "done"} => k = Len(escludi_eventi) + 1
    /\ pc = "done" =>
          \A n \in DOMAIN df_scartate :
              df_scartate[n]["Evento"] \in Range(escludi_eventi) =>
                  /\ df_scartate[n]["_motivo_esclusione"]
                         = <<"Evento escluso: ", df_scartate[n]["Evento"]>>
                  /\ "Codice" \in DOMAIN df_scartate[n] => df_scartate[n]["Codice"] = NaN

\* a discarded row with an excluded event whose activity holds no tariff code,
\* next to a row discarded for its code
C2_Witness ==
    /\ pc = "done"
    /\ Len(df_scartate) = 2
    /\ df_scartate[1]["Evento"] = Proposta
    /\ df_scartate[1]["Attivita"] = AttZ99
    /\ df_scartate[1]["_motivo_esclusione"] = <<"Evento escluso: ", Proposta>>
    /\ df_scartate[2]["_motivo_esclusione"] = <<"Codice non in tariffe: ", AttZ99>>

\* C3: every valid row has a code that is a key of the tariff mapping, so never
\* NaN and never an unmapped code.
C3_TariffClosure ==
    pc \in {"date", "concat", "done"} =>
        \A n \in DOMAIN df :
            /\ df[n]["Codice"] # NaN
            /\ \E j \in DOMAIN tariffe : tariffe[j][1] = df[n]["Codice"]

\* a valid row next to a row discarded for an unmapped code
C3_Witness ==
    /\ pc = "done"
    /\ Len(df) = 1
    /\ Len(df_scartate) = 1
    /\ df_scartate[1]["_motivo_esclusione"] = <<"Codice non in tariffe: ", AttA031>>

\* C4: no valid row has an event that is an entry of the excluded-event list.
C4_NoExcludedEventValid ==
    pc = "done" =>
        \A n \in DOMAIN df : \A j \in DOMAIN escludi_eventi :
            df[n]["Evento"] # escludi_eventi[j]

\* two excluded events, one row discarded for the second of them, one row valid
C4_Witness ==
    /\ pc = "done"
    /\ escludi_eventi = <<Annullamento, Proposta>>
    /\ Len(df) = 1
    /\ Len(df_scartate) = 1
    /\ df_scartate[1]["Evento"] = Proposta

\* C5: every discarded row carries the one reason of the stage that removed it:
\* the event reason naming its event if its event is excluded, otherwise
\* "Codice non riconosciuto" if no code was extracted, otherwise
\* "Codice non in tariffe: <code>" naming its code, which is no tariff key.
C5_Reasons ==
    pc = "done" =>
        \A n \in DOMAIN df_scartate :
            LET r == df_scartate[n]
            IN IF r["Evento"] \in Range(escludi_eventi)
               THEN r["_motivo_esclusione"] = <<"Evento escluso: ", r["Evento"]>>
               ELSE IF r["Codice"] = NaN
               THEN r["_motivo_esclusione"] = <<"Codice non riconosciuto">>
               ELSE /\ r["_motivo_esclusione"] = <<"Codice non in tariffe: ", r["Codice"]>>
                    /\ r["Codice"] \notin Range(Keys(tariffe))

\* one row discarded for a missing code, one for an unmapped code
C5_Witness ==
    /\ pc = "done"
    /\ Len(df_scartate) = 2
    /\ df_scartate[1]["Attivita"] = Atta03
    /\ df_scartate[1]["_motivo_esclusione"] = <<"Codice non riconosciuto">>
    /\ df_scartate[2]["_motivo_esclusione"] = <<"Codice non in tariffe: ", AttZ99>>

\* C6 (as amended): the code extracted from an activity text is its longest
\* prefix made of one uppercase letter followed by one or more digits, and NaN
\* if the text does not start with an uppercase letter and a digit; so "A031"
\* yields "A031" and "A3 " yields "A3".
C6_LetterThenDigits ==
    pc = "codici" =>
        \A n \in DOMAIN df :
            LET t == df[n]["Attivita"]
                c == df[n]["Codice"]
            IN /\ c = NaN <=> ~(Len(t) >= 2 /\ IsUpper(t[1]) /\ IsDigit(t[2]))
               /\ c # NaN =>
                    /\ Len(c) >= 2 /\ Len(c) <= Len(t)
                    /\ c = SubSeq(t, 1, Len(c))
                    /\ IsUpper(c[1])
                    /\ \A j \in 2..Len(c) : IsDigit(c[j])
                    /\ Len(t) > Len(c) => ~IsDigit(t[Len(c) + 1])
               /\ t = <<"A", "0", "3", "1">> => c = <<"A", "0", "3", "1">>
               /\ t = <<"A", "3", " ">> => c = <<"A", "3">>

\* the activity "A031" has been given the code "A031"
C6_Witness ==
    /\ pc = "codici"
    /\ Len(df) = 1
    /\ df[1]["Attivita"] = <<"A", "0", "3", "1">>
    /\ df[1]["Codice"] = <<"A", "0", "3", "1">>

\* C6 as stated: the code is exactly one uppercase letter followed by exactly
\* two digits from the start of the text, so "A031" yields "A03" and "A3 "
\* yields no code.
C6_ExactlyTwoDigits ==
    pc = "codici" =>
        \A n \in DOMAIN df :
            LET t == df[n]["Attivita"]
                c == df[n]["Codice"]
            IN /\ c # NaN =>
                    /\ Len(c) = 3
                    /\ c = SubSeq(t, 1, 3)
                    /\ IsUpper(c[1]) /\ IsDigit(c[2]) /\ IsDigit(c[3])
               /\ t = <<"A", "0", "3", "1">> => c = <<"A", "0", "3">>
               /\ t = <<"A", "3", " ">> => c = NaN

\* the digit n as a character
Chr(n) == Ascii[Ord("0") + n]

\* a number below 100 written with two digits, or with one if it is below 10
DayTexts(n) ==
    {<<Chr(n \div 10), Chr(n % 10)>>} \cup (IF n < 10 THEN {<<Chr(n)>>} ELSE {})

YearText(y) ==
    <<Chr(y \div 1000), Chr((y \div 100) % 10), Chr((y \div 10) % 10), Chr(y % 10)>>

\* the texts day/month/year that name the date d
DateTexts(d) ==
    {g \o <<"/">> \o m \o <<"/">> \o YearText(d[1]) :
        g \in DayTexts(d[3]), m \in DayTexts(d[2])}

\* C7: the Reference Date of a valid row is read, as day/month/year, from the
\* proposed date if the code is C06 and from the completion date otherwise,
\* whatever the other date cell holds; it is NaT only if that cell is empty or
\* is no day/month/year date; the Period is the year and month of that date.
C7_ReferenceDate ==
    pc = "done" =>
        \A n \in DOMAIN df :
            LET campo == IF df[n]["Codice"] = <<"C", "0", "6">>
                         THEN df[n]["Data Proposta"] ELSE df[n]["Data Fine"]
                rif == df[n]["Data Riferimento"]
            IN /\ rif # NaN => campo \in DateTexts(rif)
               /\ rif = NaN => campo \in {NaN, D_31_02_2024, D_2024_01_15}
               /\ df[n]["Anno-Mese"] = IF rif = NaN THEN NaN ELSE <<rif[1], rif[2]>>

\* a C06 row and an A03 row, each with both dates set
C7_Witness ==
    /\ pc = "done"
    /\ Len(df) = 2
    /\ df[1]["Codice"] = C06 /\ df[2]["Codice"] = A03
    /\ \A n \in 1..2 : df[n]["Data Fine"] = D_15_01_2024
                       /\ df[n]["Data Proposta"] = D_7_3_2024
    /\ df[1]["Data Riferimento"] = <<2024, 3, 7>> /\ df[1]["Anno-Mese"] = <<2024, 3>>
    /\ df[2]["Data Riferimento"] = <<2024, 1, 15>> /\ df[2]["Anno-Mese"] = <<2024, 1>>

\* C8 as stated: load does not abort on a missing or unparseable date, and a
\* valid row without a Reference Date has no Period and is counted in the
\* aggregations keyed by type, code and operator: it has its row, with the
\* count of the rows like it, in conteggio_totale_tipo, conteggio_per_operatore
\* and riepilogo_ricavi, and its tariff is part of ricavi_totali.
C8_NullDateStillCounted ==
    /\ pc # "raised"
    /\ pc = "done" =>
        \A n \in DOMAIN df :
            df[n]["Data Riferimento"] = NaN =>
                LET r == df[n]
                    tipi == conteggio_totale_tipo(df)
                    ops == conteggio_per_operatore(df, tariffe).rows
                    ric == riepilogo_ricavi(df, tariffe)
                    same(c) == {j \in DOMAIN df : df[j][c] = r[c]}
                IN /\ r["Anno-Mese"] = NaN
                   /\ \E j \in DOMAIN tipi :
                        /\ tipi[j].Tipo = r["Tipo"]
                        /\ tipi[j].Conteggio = Cardinality(same("Tipo"))
                   /\ \E j \in DOMAIN tipi :
                        /\ tipi[j].Tipo = r["Codice"]
                        /\ tipi[j].Conteggio = Cardinality(same("Codice"))
                   /\ tipi[Len(tipi)].Conteggio = Len(df)
                   /\ \E j \in DOMAIN ops :
                        /\ ops[j].Operatore = r["Operatore"]
                        /\ ops[j].n[r["Codice"]]
                             = Cardinality(same("Operatore") \cap same("Codice"))
                   /\ \E j \in DOMAIN ric :
                        /\ ric[j].Codice = r["Codice"]
                        /\ ric[j].Conteggio = Cardinality(same("Codice"))
                   /\ ricavi_totali(df, tariffe)
                        = SumSeq([j \in DOMAIN df |-> Tariffa(tariffe, df[j]["Codice"])])

\* C9 as stated: load does not return when a required column is absent from
\* the sheet, and leaves no valid or discarded table behind.
C9_MissingColumnFails ==
    ~(RequiredCols \subseteq colonne) =>
        /\ pc # "done"
        /\ df_scartate = <<>>

\* C10: ricavi_totali() equals the sum of count x rate over the rows of
\* riepilogo_ricavi() before the TOTALE row and equals the revenue of the
\* TOTALE row; a tariff code without occurrences has no row and adds nothing.
C10_RevenueIdentity ==
    pc = "done" =>
        LET rr == riepilogo_ricavi(df, tariffe)
            righe == SubSeq(rr, 1, Len(rr) - 1)
            somma == SumSeq([n \in DOMAIN righe |-> righe[n].Conteggio * righe[n].Tariffa])
        IN /\ rr[Len(rr)].Codice = TOTALE
           /\ \A n \in DOMAIN righe : righe[n].Codice # TOTALE /\ righe[n].Conteggio > 0
           /\ ricavi_totali(df, tariffe) = somma
           /\ ricavi_totali(df, tariffe) = rr[Len(rr)].Ricavo
           /\ risultato.op = "ricavi_totali" => risultato.val = somma
           /\ risultato.op = "riepilogo_ricavi" =>
                risultato.val[Len(risultato.val)].Ricavo = ricavi_totali(df, tariffe)

\* ricavi_totali() has been called on two rows of different codes, under the
\* default tariffs, three of which do not occur
C10_Witness ==
    /\ pc = "done"
    /\ tariffe = TariffeDefault
    /\ Len(df) = 2
    /\ df[1]["Codice"] = C06 /\ df[2]["Codice"] = A03
    /\ risultato.op = "ricavi_totali"
    /\ risultato.val = 49988 + 3714

-----------------------------------------------------------------------------
(* Properties of the count tables *)

\* the table an aggregation has just returned, when it returned one
Returned(op) == risultato.op = op /\ risultato.exc = ""

\* C11: the last row of conteggio_totale_tipo is the TOTALE row and counts the
\* valid rows; the rows before it are one per type and one per code present in
\* valid, in strictly ascending order of label, each with the number of valid
\* rows of that type or code.
C11_CountsByType ==
    Returned("conteggio_totale_tipo") =>
        LET t == risultato.val
            righe == SubSeq(t, 1, Len(t) - 1)
            presenti == {df[n]["Tipo"] : n \in DOMAIN df}
                        \cup {df[n]["Codice"] : n \in DOMAIN df}
        IN /\ t[Len(t)] = [Tipo |-> TOTALE, Conteggio |-> Len(df)]
           /\ {righe[n].Tipo : n \in DOMAIN righe} = presenti
           /\ \A i, j \in DOMAIN righe : i < j => StrLess(righe[i].Tipo, righe[j].Tipo)
           /\ \A n \in DOMAIN righe :
                righe[n].Conteggio =
                    Cardinality({j \in DOMAIN df : \/ df[j]["Tipo"] = righe[n].Tipo
                                                   \/ df[j]["Codice"] = righe[n].Tipo})

\* the table of two rows of types A and C: each type row sits before its code
C11_Witness ==
    /\ Returned("conteggio_totale_tipo")
    /\ risultato.val = << [Tipo |-> <<"A">>, Conteggio |-> 1],
                          [Tipo |-> A03, Conteggio |-> 1],
                          [Tipo |-> <<"C">>, Conteggio |-> 1],
                          [Tipo |-> C06, Conteggio |-> 1],
                          [Tipo |-> TOTALE, Conteggio |-> 2] >>

\* C12 as stated: in conteggio_per_operatore every row's Totale is the sum of
\* its code columns, and the Totale column adds up to the number of valid rows,
\* rows without an operator included.
C12_TotalsCoverValid ==
    Returned("conteggio_per_operatore") =>
        LET t == risultato.val
        IN /\ \A n \in DOMAIN t.rows :
                t.rows[n].Totale = SommaColonne(t.rows[n].n, t.cols)
           /\ SumSeq([n \in DOMAIN t.rows |-> t.rows[n].Totale]) = Len(df)

\* C13: every key of the tariff dict is a column of conteggio_per_operatore,
\* and a count column and a revenue column of calcolo_ricavi_per_mese; the code
\* columns are in strictly ascending order of code; a code that no valid row
\* carries has 0 in every row.
C13_ZeroFill ==
    LET chiavi == Range(Keys(tariffe))
        assente(c) == \A n \in DOMAIN df : df[n]["Codice"] # c
        crescente(cols) == \A i, j \in DOMAIN cols : i < j => StrLess(cols[i], cols[j])
    IN /\ Returned("conteggio_per_operatore") =>
            LET t == risultato.val
            IN /\ Range(t.cols) = chiavi /\ crescente(t.cols)
               /\ \A n \in DOMAIN t.rows :
                    /\ DOMAIN t.rows[n].n = chiavi
                    /\ \A c \in chiavi : assente(c) => t.rows[n].n[c] = 0
       /\ Returned("calcolo_ricavi_per_mese") =>
            LET t == risultato.val
            IN /\ Range(t.cols_codice) = chiavi /\ crescente(t.cols_codice)
               /\ Range(t.cols_ricavo) = chiavi /\ Len(t.cols_ricavo) = Len(tariffe)
               /\ \A n \in DOMAIN t.rows :
                    /\ DOMAIN t.rows[n].n = chiavi
                    /\ DOMAIN t.rows[n].ricavo = chiavi
                    /\ \A c \in chiavi :
                         assente(c) => t.rows[n].n[c] = 0 /\ t.rows[n].ricavo[c] = 0

\* the revenue table of one A03 row under tariffs inserted as C06, A03, A06:
\* the count columns are A03, A06, C06 and the two absent codes hold zeros
C13_Witness ==
    /\ Returned("calcolo_ricavi_per_mese")
    /\ tariffe = Tariffe3
    /\ Len(df) = 1 /\ df[1]["Codice"] = A03
    /\ risultato.val.cols_codice = <<A03, A06, C06>>
    /\ Len(risultato.val.rows) = 1
    /\ risultato.val.rows[1].n = (A03 :> 1) @@ (A06 :> 0) @@ (C06 :> 0)
    /\ risultato.val.rows[1].ricavo = (A03 :> 3714) @@ (A06 :> 0) @@ (C06 :> 0)

-----------------------------------------------------------------------------
(* The worked example *)

\* the first row of the sheet is the one valid row, and the total is its tariff
ScenarioValid ==
    /\ Len(df) = 1
    /\ \A c \in AllCols : df[1][c] = raw[1][c]
    /\ df[1]["Codice"] = A03
    /\ ricavi_totali(df, tariffe) = 3714
    /\ Returned("ricavi_totali") => risultato.val = 3714

\* C14 as stated: on the sheet of the example load returns the first row as
\* valid and two discarded rows whose reasons are the texts
\* "Event excluded: Proposta" and "Code not in tariffs: Z99", and the total
\* revenue is 37.14.
C14_ScenarioAsStated ==
    /\ pc # "raised"
    /\ pc = "done" =>
        /\ ScenarioValid
        /\ Len(df_scartate) = 2
        /\ df_scartate[1]["_motivo_esclusione"] = <<"Event excluded: ", Proposta>>
        /\ df_scartate[2]["_motivo_esclusione"] = <<"Code not in tariffs: ", <<"Z", "9", "9">> >>

\* C14 (as amended): on the sheet of the example load returns the first row as
\* valid and two discarded rows, the Proposta row and then the Z99 row, whose
\* reasons are the texts "Evento escluso: Proposta" and
\* "Codice non in tariffe: Z99", and the total revenue is 37.14.
C14_Scenario ==
    /\ pc # "raised"
    /\ pc = "done" =>
        /\ ScenarioValid
        /\ Len(df_scartate) = 2
        /\ df_scartate[1]["Evento"] = Proposta
        /\ df_scartate[1]["_motivo_esclusione"] = <<"Evento escluso: ", Proposta>>
        /\ df_scartate[2]["Attivita"] = AttZ99
        /\ df_scartate[2]["_motivo_esclusione"] = <<"Codice non in tariffe: ", <<"Z", "9", "9">> >>

\* the example has been loaded and its total revenue asked for
C14_Witness ==
    /\ Returned("ricavi_totali")
    /\ risultato.val = 3714
    /\ Len(raw) = 3 /\ Len(df) = 1 /\ Len(df_scartate) = 2
    /\ df[1]["Evento"] = Completed
    /\ df[1]["Data Riferimento"] = <<2024, 1, 1>>

-----------------------------------------------------------------------------
(* Properties of the tables by operator and by beneficiary *)

\* C16: utenti_per_operatore returns one row for each operator of valid, with
\* the number of distinct beneficiaries of the rows of that operator, in
\* descending order of that number, and then a TOTALE row with the number of
\* distinct beneficiaries of valid, each counted once.
C16_UsersByOperator ==
    Returned("utenti_per_operatore") =>
        LET t == risultato.val
            righe == SubSeq(t, 1, Len(t) - 1)
            operatori == {df[n]["Operatore"] : n \in DOMAIN df} \ {NaN}
            destinatari(S) == {df[n]["Destinatario"] : n \in S} \ {NaN}
        IN /\ Len(righe) = Cardinality(operatori)
           /\ {righe[n].Operatore : n \in DOMAIN righe} = operatori
           /\ \A n \in DOMAIN righe :
                righe[n].Numero_Utenti =
                    Cardinality(destinatari({j \in DOMAIN df :
                                    df[j]["Operatore"] = righe[n].Operatore}))
           /\ \A i, j \in DOMAIN righe :
                i < j => righe[i].Numero_Utenti >= righe[j].Numero_Utenti
           /\ t[Len(t)] = [Operatore |-> TOTALE,
                           Numero_Utenti |-> Cardinality(destinatari(DOMAIN df))]

\* P1 is seen under both operators and P2 under OpY only: OpY comes first with
\* two users, and TOTALE is 2, not 3
C16_Witness ==
    /\ Returned("utenti_per_operatore")
    /\ Len(df) = 3
    /\ risultato.val = << [Operatore |-> OpY, Numero_Utenti |-> 2],
                          [Operatore |-> OpX, Numero_Utenti |-> 1],
                          [Operatore |-> TOTALE, Numero_Utenti |-> 2] >>

\* the table by beneficiary an aggregation has just returned
ReturnedByPerson ==
    \/ Returned("conteggio_per_persona_tipo")
    \/ Returned("conteggio_per_persona_tipo_mese")

\* the valid rows of beneficiary b
RigheDi(b) == {n \in DOMAIN df : df[n]["Destinatario"] = b}

\* no row of S has a later Data Riferimento than row n; a row without a date
\* is older than every dated row
Ultima(n, S) ==
    \A j \in S :
        \/ df[j]["Data Riferimento"] = NaN
        \/ /\ df[n]["Data Riferimento"] # NaN
           /\ ~TimeLess(df[n]["Data Riferimento"], df[j]["Data Riferimento"])

\* every beneficiary of valid has exactly one row, hence one operator value
UnOperatore(t) ==
    \A b \in {df[n]["Destinatario"] : n \in DOMAIN df} \ {NaN} :
        Cardinality({n \in DOMAIN t.rows : t.rows[n].Destinatario = b}) = 1

\* C17 as stated: in conteggio_per_persona_tipo and
\* conteggio_per_persona_tipo_mese the Operatore of a beneficiary is the
\* operator of one of that beneficiary's valid rows whose Data Riferimento is
\* the maximum among all of that beneficiary's rows, and every beneficiary has
\* exactly one operator value.
C17_OperatorOfLatestRow ==
    ReturnedByPerson =>
        LET t == risultato.val
        IN /\ UnOperatore(t)
           /\ \A r \in Range(t.rows) :
                \E n \in RigheDi(r.Destinatario) :
                    /\ df[n]["Operatore"] = r.Operatore
                    /\ Ultima(n, RigheDi(r.Destinatario))

\* C17 (as amended): in both tables the Operatore of a beneficiary is the
\* operator of the most recently dated row among that beneficiary's valid rows
\* that have an operator (rows without an operator are skipped, and a row
\* without a date counts as older than every dated row); it is empty only when
\* none of the beneficiary's rows has an operator; every beneficiary has exactly
\* one operator value.
C17_LatestKnownOperator ==
    ReturnedByPerson =>
        LET t == risultato.val
        IN /\ UnOperatore(t)
           /\ \A r \in Range(t.rows) :
                LET noti == {n \in RigheDi(r.Destinatario) : df[n]["Operatore"] # NaN}
                IN IF noti = {} THEN r.Operatore = NaN
                   ELSE \E n \in noti : /\ df[n]["Operatore"] = r.Operatore
                                        /\ Ultima(n, noti)

\* P1's latest row has no operator and the older one has OpX: OpX is shown
C17_Witness ==
    /\ Returned("conteggio_per_persona_tipo")
    /\ Len(df) = 2
    /\ df[1]["Destinatario"] = P1 /\ df[2]["Destinatario"] = P1
    /\ df[1]["Operatore"] = OpX /\ df[1]["Data Riferimento"] = <<2024, 1, 15>>
    /\ df[2]["Operatore"] = NaN /\ df[2]["Data Riferimento"] = <<2024, 2, 3>>
    /\ Len(risultato.val.rows) = 1
    /\ risultato.val.rows[1].Operatore = OpX

\* C18: conteggio_per_persona_tipo has exactly one row for each beneficiary of
\* valid, in strictly ascending order of beneficiary, and a row's Totale is the
\* sum of its type columns alone, which is the number of valid rows of that
\* beneficiary.
C18_OneRowPerPerson ==
    Returned("conteggio_per_persona_tipo") =>
        LET t == risultato.val
            tipi == {df[n]["Tipo"] : n \in DOMAIN df}
        IN /\ {t.rows[n].Destinatario : n \in DOMAIN t.rows}
                = {df[n]["Destinatario"] : n \in DOMAIN df} \ {NaN}
           /\ \A i, j \in DOMAIN t.rows :
                i < j => StrLess(t.rows[i].Destinatario, t.rows[j].Destinatario)
           /\ \A r \in Range(t.rows) :
                /\ r.Totale = SommaColonne(r.n, SelectSeq(t.cols, LAMBDA c : c \in tipi))
                /\ r.Totale = Cardinality(RigheDi(r.Destinatario))

\* P1 has an A03 row and an A06 row: the type column holds 2, the two code
\* columns 1 each, and Totale is 2
C18_Witness ==
    /\ Returned("conteggio_per_persona_tipo")
    /\ risultato.val.cols = << <<"A">>, A03, A06 >>
    /\ Len(risultato.val.rows) = 1
    /\ risultato.val.rows[1].Destinatario = P1
    /\ risultato.val.rows[1].n[<<"A">>] = 2
    /\ risultato.val.rows[1].n[A03] = 1
    /\ risultato.val.rows[1].n[A06] = 1
    /\ risultato.val.rows[1].Totale = 2

\* the type a code belongs to: its first character
TipoDi(c) == SubSeq(c, 1, 1)

\* C19: between Destinatario, Operatore and Totale, conteggio_per_persona_tipo
\* has, for each type present in valid in ascending order, the type column and
\* right after it the tariff codes of that type in ascending order; a tariff
\* code whose type is not in valid has no column; every cell is the number of
\* the beneficiary's rows of that type or code, 0 when there is none.
C19_ColumnOrder ==
    Returned("conteggio_per_persona_tipo") =>
        LET t == risultato.val
            tipi == {df[n]["Tipo"] : n \in DOMAIN df}
        IN /\ Range(t.cols) = tipi \cup {c \in Range(Keys(tariffe)) : TipoDi(c) \in tipi}
           /\ \A i, j \in DOMAIN t.cols :
                i < j => \/ StrLess(TipoDi(t.cols[i]), TipoDi(t.cols[j]))
                         \/ /\ TipoDi(t.cols[i]) = TipoDi(t.cols[j])
                            /\ StrLess(t.cols[i], t.cols[j])
           /\ \A r \in Range(t.rows) :
                /\ DOMAIN r.n = Range(t.cols)
                /\ \A c \in Range(t.cols) :
                     r.n[c] = Cardinality({n \in RigheDi(r.Destinatario) :
                                             df[n]["Tipo"] = c \/ df[n]["Codice"] = c})

\* under the default tariffs, P1 with an A03 row and P2 with a C06 row: the
\* columns are A, A03, A06, C, C06, without B03 and B04, and P1 has 0 under C06
C19_Witness ==
    /\ Returned("conteggio_per_persona_tipo")
    /\ tariffe = TariffeDefault
    /\ risultato.val.cols = << <<"A">>, A03, A06, <<"C">>, C06 >>
    /\ Len(risultato.val.rows) = 2
    /\ risultato.val.rows[1].Destinatario = P1
    /\ risultato.val.rows[1].n[A03] = 1
    /\ risultato.val.rows[1].n[A06] = 0
    /\ risultato.val.rows[1].n[C06] = 0
    /\ risultato.val.rows[2].n[<<"C">>] = 1

-----------------------------------------------------------------------------
(* The rows without a period in the tables by month *)

\* whether each table by month shows the rows without a period under a label
\* of their own
BucketTipoMese == NaT \in Range(conteggio_totale_tipo_mese(df).cols)
BucketPersonaTipoMese ==
    \E c \in Range(conteggio_per_persona_tipo_mese(df, ties).cols) :
        \E tp \in {df[n]["Tipo"] : n \in DOMAIN df} : c = tp \o <<"_">> \o NaT
BucketOperatoreMese ==
    \E r \in Range(conteggio_per_operatore_mese(df, tariffe).rows) : r.Mese = NaT
BucketRicaviMese ==
    \E r \in Range(calcolo_ricavi_per_mese(df, tariffe).rows) : r.Mese = NaT
BucketAndamento ==
    \E r \in Range(andamento_mensile(df).rows) : r.Mese = NaT

\* C20 as stated: when valid has rows without a period, the five tables by
\* month treat them alike: either none of conteggio_totale_tipo_mese,
\* conteggio_per_persona_tipo_mese, conteggio_per_operatore_mese,
\* calcolo_ricavi_per_mese and andamento_mensile counts them, or each of them
\* shows them under a label of their own.
C20_OneNullPeriodPolicy ==
    (pc = "done" /\ \E n \in DOMAIN df : df[n]["Anno-Mese"] = NaN) =>
        \/ /\ BucketTipoMese /\ BucketPersonaTipoMese /\ BucketOperatoreMese
           /\ BucketRicaviMese /\ BucketAndamento
        \/ /\ ~BucketTipoMese /\ ~BucketPersonaTipoMese /\ ~BucketOperatoreMese
           /\ ~BucketRicaviMese /\ ~BucketAndamento

-----------------------------------------------------------------------------
(* Repeated entries of the excluded list *)

\* C21: when the excluded list names an event more than once, every raw row
\* with an excluded event is in the discarded table exactly once, with the
\* reason of its event, and the valid and the discarded table are the ones a
\* load with the list without its repeats (each event at its first position)
\* returns.
C21_DuplicateEvents ==
    (pc = "done" /\ Dedup(escludi_eventi) # escludi_eventi) =>
        LET senza == load_data(raw, colonne, tariffe, Dedup(escludi_eventi))
        IN /\ \A n \in DOMAIN raw :
                raw[n]["Evento"] \in Range(escludi_eventi) =>
                    /\ Cardinality({j \in DOMAIN df_scartate :
                          df_scartate[j]["_indice_originale"] = IndiceOriginale(n)}) = 1
                    /\ \A j \in DOMAIN df_scartate :
                          df_scartate[j]["_indice_originale"] = IndiceOriginale(n) =>
                              df_scartate[j]["_motivo_esclusione"]
                                  = MotivoEvento(raw[n]["Evento"])
           /\ senza.exc = ""
           /\ df = senza.df
           /\ df_scartate = senza.df_scartate

\* the list Proposta, Annullamento, Proposta on a sheet with an Annullamento
\* row before a Proposta row: the Proposta row is recorded first, once
C21_Witness ==
    /\ pc = "done"
    /\ escludi_eventi = <<Proposta, Annullamento, Proposta>>
    /\ Len(raw) = 2
    /\ raw[1]["Evento"] = Annullamento
    /\ raw[2]["Evento"] = Proposta
    /\ Indici(df_scartate) = <<3, 2>>

-----------------------------------------------------------------------------
(* What the pipeline leaves alone *)

\* the table the aggregation op returns on the frame d
Tabella(op, d, t, tie) ==
    CASE op = "riepilogo_ricavi" -> riepilogo_ricavi(d, t)
      [] op = "ricavi_totali" -> ricavi_totali(d, t)
      [] op = "conteggio_totale_tipo" -> conteggio_totale_tipo(d)
      [] op = "conteggio_per_operatore" -> conteggio_per_operatore(d, t)
      [] op = "conteggio_per_persona_tipo" -> conteggio_per_persona_tipo(d, t, tie)
      [] op = "conteggio_per_persona_tipo_mese" -> conteggio_per_persona_tipo_mese(d, tie)
      [] op = "conteggio_totale_tipo_mese" -> conteggio_totale_tipo_mese(d)
      [] op = "conteggio_per_operatore_mese" -> conteggio_per_operatore_mese(d, t)
      [] op = "calcolo_ricavi_per_mese" -> calcolo_ricavi_per_mese(d, t)
      [] op = "utenti_per_operatore" -> utenti_per_operatore(d, tie)
      [] op = "andamento_mensile" -> andamento_mensile(d)

Aggregazioni ==
    {"riepilogo_ricavi", "ricavi_totali", "conteggio_totale_tipo",
     "conteggio_per_operatore", "conteggio_per_persona_tipo",
     "conteggio_per_persona_tipo_mese", "conteggio_totale_tipo_mese",
     "conteggio_per_operatore_mese", "calcolo_ricavi_per_mese",
     "utenti_per_operatore", "andamento_mensile"}

\* C22: no step of the pipeline changes one of its inputs.  Every step of the
\* load leaves the tariff dict and the excluded list as they were passed;
\* every aggregation leaves the valid table (its rows and their columns) and
\* the tariffs unchanged, so that, whatever was called before and however
\* often, an aggregation returns the table it returns on the table the load
\* produced.
C22_InputsUntouched ==
    [][/\ tariffe' = tariffe
       /\ escludi_eventi' = escludi_eventi
       /\ raw' = raw
       /\ pc = "done" =>
            /\ df' = df
            /\ df_scartate' = df_scartate
            /\ (risultato'.op \in Aggregazioni /\ risultato'.exc = "") =>
                  risultato'.val =
                      Tabella(risultato'.op,
                              load_data(raw, colonne, tariffe, escludi_eventi).df,
                              tariffe, ties)]_vars

\* the revenue table by month returned on a table of two valid rows of
\* different codes
C22_Witness ==
    /\ pc = "done"
    /\ Len(df) = 2
    /\ df[1]["Codice"] # df[2]["Codice"]
    /\ Returned("calcolo_ricavi_per_mese")
    /\ risultato.val.rows # <<>>

-----------------------------------------------------------------------------
(* Properties of ConfigManager *)

\* C23: whatever was done before (construction on a missing or unreadable
\* config file, aggiungi_tariffa, rimuovi_tariffa, the tariffe setter,
\* reset_all), right after reset_tariffe() the tariffs of the instance are
\* the documented defaults A03 37.14, A06 35.57, B03 37.14, B04 37.14,
\* C06 499.88 and nothing else.
C23_ResetRestoresDefaults ==
    risultato.op = "reset_tariffe" =>
        TariffeDi(risultato.val) = DefaultDocumentato.tariffe

\* C28: no operation changes the class-level DEFAULT_CONFIG, and a step taken
\* through one instance changes neither the tariffs nor the excluded events
\* that another instance shows.
C28_DefaultsIsolated ==
    /\ [](DEFAULT_CONFIG = DefaultDocumentato)
    /\ [][\A j \in DOMAIN istanze :
             j # risultato'.val =>
                 /\ TariffeDi(j)' = TariffeDi(j)
                 /\ EventiDi(j)' = EventiDi(j)]_vars

-----------------------------------------------------------------------------
(* The dashboard against the library *)

\* C24: the 'Ricavi Totali' figure the dashboard shows is the amount that
\* AnalisiPolitiche.ricavi_totali() returns for the same valid table and
\* tariffs.
C24_MetricIsRicaviTotali ==
    Returned("app_ricavi_totali") => risultato.val = ricavi_totali(df, tariffe)

-----------------------------------------------------------------------------
(* The line numbers of the discarded rows *)

\* the line of the sheet that holds the n-th data row, the header being line 1
RigaFoglio(n) == n + 1

\* the n-th data row is excluded by its event or by its code
DaScartare(n) ==
    \/ raw[n]["Evento"] \in Range(escludi_eventi)
    \/ CodiceInvalido(ExtractCodice(raw[n]["Attivita"]), codici_validi)

\* C25: every discarded row carries the 1-based line number its raw row has
\* in the sheet.  The numbers found in the discarded table are exactly the
\* sheet lines of the raw rows to exclude, each once, whatever rows were
\* removed before them, and the row that carries a number is the raw row of
\* that line.
C25_SourceLineNumbers ==
    pc = "done" =>
        /\ NoRepeat(Indici(df_scartate))
        /\ Range(Indici(df_scartate))
              = {RigaFoglio(n) : n \in {m \in DOMAIN raw : DaScartare(m)}}
        /\ \A j \in DOMAIN df_scartate :
             \E n \in DOMAIN raw :
                /\ df_scartate[j]["_indice_originale"] = RigaFoglio(n)
                /\ \A c \in colonne : df_scartate[j][c] = raw[n][c]

\* a first data row discarded for its event and a second one, with the same
\* activity text, discarded for its code: lines 2 and 3
C25_Witness ==
    /\ pc = "done"
    /\ Len(raw) = 2
    /\ raw[1]["Evento"] = Proposta
    /\ raw[2]["Evento"] = Completato
    /\ raw[1]["Attivita"] = raw[2]["Attivita"]
    /\ Indici(df_scartate) = <<2, 3>>

-----------------------------------------------------------------------------
(* The discarded rows as exported *)

\* the source field each header names
CampoDi(h) ==
    CASE h = "Riga Excel" -> "_indice_originale"
      [] h = "Motivo Esclusione" -> "_motivo_esclusione"
      [] OTHER -> h

\* C26: the discarded rows prepared for export have the six columns line
\* number, beneficiary, operator, activity, event, exclusion reason, and in
\* every row the cell under a header is the value of the field the header
\* names (empty where the discarded table has no such field), for an empty
\* table and for a table that lacks some of the fields as well.
C26_ExportColumns ==
    Returned("prepara_scartate_per_export") =>
        /\ risultato.val.columns = Intestazioni
        /\ Len(risultato.val.rows) = Len(df_scartate)
        /\ \A n \in DOMAIN df_scartate, j \in DOMAIN Intestazioni :
             risultato.val.rows[n][j] =
                 IF CampoDi(Intestazioni[j]) \in DOMAIN df_scartate[n]
                 THEN df_scartate[n][CampoDi(Intestazioni[j])]
                 ELSE NaN

-----------------------------------------------------------------------------
(* The revenue table by month *)

\* the valid rows of the period shown as m that carry the code c
RigheMeseCodice(m, c) ==
    {n \in DOMAIN df : PeriodStr(df[n]["Anno-Mese"]) = m /\ df[n]["Codice"] = c}

\* C27: calcolo_ricavi_per_mese has one row per period of the valid rows, the
\* rows in the order of their periods (the rows without a period form one
\* row, labelled NaT, after all others).  In each row and for each tariff
\* code the count is the number of valid rows of that period and code and the
\* revenue is count x rate; Totale_Conteggio is the sum of the row's counts,
\* Totale_Ricavo the sum of its revenues; and the Totale_Conteggio of all
\* rows add up to the number of valid rows.
C27_RevenueByMonth ==
    Returned("calcolo_ricavi_per_mese") =>
        LET rows == risultato.val.rows
            codici == Keys(tariffe)
        IN /\ {rows[i].Mese : i \in DOMAIN rows}
                = {PeriodStr(df[n]["Anno-Mese"]) : n \in DOMAIN df}
           /\ \A i, j \in DOMAIN rows : i # j => rows[i].Mese # rows[j].Mese
           /\ \A i, j \in DOMAIN rows : \A a, b \in DOMAIN df :
                (/\ i < j
                 /\ PeriodStr(df[a]["Anno-Mese"]) = rows[i].Mese
                 /\ PeriodStr(df[b]["Anno-Mese"]) = rows[j].Mese)
                => /\ df[a]["Anno-Mese"] # NaN
                   /\ (df[b]["Anno-Mese"] # NaN =>
                         TimeLess(df[a]["Anno-Mese"], df[b]["Anno-Mese"]))
           /\ \A i \in DOMAIN rows :
                /\ \A c \in Range(codici) :
                     /\ rows[i].n[c] = Cardinality(RigheMeseCodice(rows[i].Mese, c))
                     /\ rows[i].ricavo[c] = rows[i].n[c] * Tariffa(tariffe, c)
                /\ rows[i].Totale_Conteggio
                     = SumSeq([q \in DOMAIN codici |-> rows[i].n[codici[q]]])
                /\ rows[i].Totale_Ricavo
                     = SumSeq([q \in DOMAIN codici |-> rows[i].ricavo[codici[q]]])
           /\ SumSeq([i \in DOMAIN rows |-> rows[i].Totale_Conteggio]) = Len(df)

\* an A03 row completed in January 2024 and a C06 row without a proposal
\* date: a row 2024-01 worth 37.14 and a row NaT worth 499.88
C27_Witness ==
    /\ Returned("calcolo_ricavi_per_mese")
    /\ Len(risultato.val.rows) = 2
    /\ risultato.val.rows[1].Mese = PeriodStr(<<2024, 1>>)
    /\ risultato.val.rows[1].Totale_Ricavo = 3714
    /\ risultato.val.rows[2].Mese = NaT
    /\ risultato.val.rows[2].Totale_Ricavo = 49988

-----------------------------------------------------------------------------
(* Types and their codes in the table by beneficiary *)

\* the positions of the code columns that stand right after the type column
\* at position i, up to the next type column
SottoCodici(cols, i) ==
    {j \in DOMAIN cols : j > i /\ \A q \in (i + 1)..j : Len(cols[q]) > 1}

\* C29: in every row of conteggio_per_persona_tipo, the cell of a type column
\* is the sum of the cells of the code columns shown after it, which are the
\* codes of that type (the valid rows carry tariff codes only).
C29_TypeIsSumOfCodes ==
    Returned("conteggio_per_persona_tipo") =>
        LET t == risultato.val
        IN \A r \in Range(t.rows) : \A i \in DOMAIN t.cols :
              Len(t.cols[i]) = 1 =>
                 /\ \A j \in SottoCodici(t.cols, i) : TipoDi(t.cols[j]) = t.cols[i]
                 /\ r.n[t.cols[i]]
                      = SumSeq([j \in DOMAIN t.cols |->
                                  IF j \in SottoCodici(t.cols, i)
                                  THEN r.n[t.cols[j]] ELSE 0])

\* P1 with an A03 row and a C06 row: A is 1 over A03 = 1 and A06 = 0, C is 1
\* over C06 = 1
C29_Witness ==
    /\ Returned("conteggio_per_persona_tipo")
    /\ risultato.val.cols = << <<"A">>, A03, A06, <<"C">>, C06 >>
    /\ Len(risultato.val.rows) = 1
    /\ risultato.val.rows[1].n[<<"A">>] = 1
    /\ risultato.val.rows[1].n[A03] = 1
    /\ risultato.val.rows[1].n[A06] = 0
    /\ risultato.val.rows[1].n[<<"C">>] = 1
    /\ risultato.val.rows[1].n[C06] = 1

-----------------------------------------------------------------------------
(* The dashboard's loader against DataLoader.load *)

\* C30: on the same sheet, tariffs and excluded events, load_data of app.py
\* and DataLoader.load give the same outcome: when load returns, load_data
\* returns the same valid table and the same discarded table (the same rows
\* with the same columns, reasons and line numbers, in the same order), and
\* when load raises, load_data raises the same exception.
C30_LoadDataIsLoad ==
    risultato.op = "load_data" =>
        /\ pc = "done" =>
             /\ risultato.exc = ""
             /\ risultato.val.df = df
             /\ risultato.val.df_scartate = df_scartate
        /\ pc = "raised" => risultato.exc = eccezione

\* both loaders on a sheet with a row excluded for its event, a row excluded
\* for its code, in that order in the discarded table
C30_Witness ==
    /\ risultato.op = "load_data"
    /\ pc = "done"
    /\ escludi_eventi = <<Annullamento, Proposta>>
    /\ Len(raw) = 2
    /\ raw[1]["Attivita"] = AttZ99
    /\ raw[1]["Evento"] = Completato
    /\ raw[2]["Evento"] = Proposta
    /\ Indici(risultato.val.df_scartate) = <<3, 2>>

====
